---- MODULE Spec2Model ----
(***************************************************************************)
(* A model of the juicebox-sdk client core: the registration state machine *)
(* (rust/sdk/client/src/register.rs), the forward-secrecy rule of the      *)
(* request types (rust/sdk/core/src/requests.rs), the VOPRF primitive      *)
(* (rust/sdk/voprf/src/lib.rs) and its marshalling                         *)
(* (rust/sdk/marshalling/src/lib.rs).                                      *)
(***************************************************************************)
EXTENDS Integers, Sequences, FiniteSets, TLC

(***************************************************************************)
(* Bounds of the model.                                                    *)
(***************************************************************************)
\* the largest number of realms in a configuration
MaxRealms == 3
\* the largest generation number a realm reports as first_available
MaxGen == 2
\* the group order of the VOPRF model is the OrderIndex-th of these primes
OrderIndex == 2
\* the longest VOPRF input, in bytes
MaxInputLen == 1
\* the largest number of ClientRequests sent to the realm of the session model
MaxSent == 4
\* the largest first byte of a seed of a VOPRF test vector
MaxSeed == 3
\* the largest number of runs made on one TestInputs
MaxRuns == 2
\* the largest number of realms where the termination of register is checked
MaxLiveRealms == 2

VARIABLES
    \* ---- configuration and environment of the Client
    n,                  \* configuration.realms.len()
    register_threshold, \* configuration.register_threshold
    tokens,             \* realms for which the token provider yields a token
    \* ---- register_first_available_generation / register_generation
    pc,                 \* "idle", "register1", "register2", "delete_up_to", "done"
    attempt,            \* 1: generation 0, 2: the retry generation
    generation,         \* the generation of the current register_generation call
    r1,                 \* per realm: the result of its register1 future
    oprfs_pin,          \* the Vec<Option<OprfResult>> built from phase 1
    register2_args,     \* the Register2Args of the register2 futures built
    r2,                 \* per realm: the result of its register2 future
    requests,           \* the SecretsRequests handed to the realms so far
    result,             \* what register returned: "none", "Ok" or a RegisterError
    decided,            \* where the result was decided
    cleanup,            \* what delete_up_to returned to register, "none" when
                        \* it was not called
    received,           \* per realm: the outcomes of its Register1 and
                        \* Register2 requests in the current attempt, as Options
    \* ---- a VOPRF run (voprf/src/lib.rs) and the marshalling of its values
    vpc,                \* "init", "keyed", "started", "evaluated", "finalized",
                        \* "serialized", "received", "deserialized"
    private_key,        \* Option<PrivateKey>: a scalar
    public_key,         \* Option<PublicKey>: the 32 bytes of a CompressedPoint
    input,              \* the input bytes given to start
    blinding_factor,    \* Option<BlindingFactor>: a scalar
    blinded_input,      \* Option<BlindedInput>: a DecompressedPoint
    blinded_output,     \* Option<BlindedOutput>: a DecompressedPoint
    proof,              \* Option<Proof>
    verified,           \* Option of verify_proof's result
    output,             \* Option<Output> of finalize
    wire_type,          \* the type the bytes in wire are (to be) read as
    wire_value,         \* Option: the value to_vec was given
    wire,               \* serialized bytes
    decoded,            \* Option of from_slice's result
    \* ---- the Noise session with one realm and the requests made over it
    sess,               \* "Absent", "Handshaking", "Established", "Expired"
    cur,                \* Option: the make_request in progress
    sent,               \* the ClientRequests sent to the realm, in order
    sresult,            \* what the last make_request returned
    response            \* the last ClientResponse received for the request made
                        \* last, "none" before one arrives

regVars == <<n, register_threshold, tokens, pc, attempt, generation, r1,
             oprfs_pin, register2_args, r2, requests, result, decided, cleanup,
             received>>

voprfVars == <<vpc, private_key, public_key, input, blinding_factor,
               blinded_input, blinded_output, proof, verified, output,
               wire_type, wire_value, wire, decoded>>

sessVars == <<sess, cur, sent, sresult, response>>

VARIABLES
    \* ---- tests::run_with_inputs (voprf/src/lib.rs): VOPRF runs on seeds
    test_inputs,        \* TestInputs: the input and the three seeds
    entropy,            \* ManualRng.entropy: the bytes not yet drained
    tpc,                \* "idle", "rng", "keyed", "started", "evaluated",
                        \* "panicked"
    run,                \* the values of the run in progress
    test_outputs        \* the TestOutputs of the runs made, in order

vecVars == <<test_inputs, entropy, tpc, run, test_outputs>>

VARIABLES
    \* ---- fmt::Debug of the VOPRF types and the Noise messages
    logged              \* what was formatted: the value and the text written

dbgVars == <<logged>>

VARIABLES
    \* ---- the JNI bridge (bridge/jni/src/lib.rs)
    java_configuration, \* Option: the Java Configuration clientCreate was given
    client,             \* Option: the Configuration of the Client created
    jcall,              \* the last call of clientRegister, clientRecover or
                        \* clientDelete: its arguments, the SDK's result, what
                        \* was returned and what was thrown
    jpc                 \* "ready", or "panicked" once an unwrap has failed

jniVars == <<java_configuration, client, jcall, jpc>>

VARIABLES
    \* ---- register and recover against honest realms
    recover_threshold,  \* configuration.recover_threshold
    realm_state,        \* per realm: the first available generation and the
                        \* record the realm holds
    rop,                \* the register or recover in progress, or made last
    registered,         \* Option: the pin, secret and policy of the last
                        \* register that returned Ok, None after a delete
    deletes             \* the deletes that have returned, counted up to 2

recVars == <<recover_threshold, realm_state, rop, registered, deletes>>

VARIABLES
    \* ---- the realms' answers to Register2, where they are fixed beforehand
    planned             \* Option: per realm, what it answers to Register2

ordVars == <<planned>>

VARIABLES
    \* ---- a call through the JNI bridge and the host's completions
    host,               \* the host thread in clientRegister, clientRecover or
                        \* clientDelete: the call, whether it is blocked in
                        \* it, what the call threw
    operation,          \* the SDK operation block_on drives: its name, the
                        \* fan-out it is in, its final result once it has one
    tasks,              \* per realm, the request of the fan-out: its stage,
                        \* its ids, the completions delivered to it
    auth_pending,       \* AuthTokenManager: the context ids awaiting a token
    http_pending,       \* HttpClient: the request ids awaiting a response
    next_context_id     \* the next context id the AuthTokenManager hands out

brVars == <<host, operation, tasks, auth_pending, http_pending, next_context_id>>

extVars == <<vecVars, dbgVars, jniVars, recVars, ordVars, brVars>>

\* per group of variables, the groups beside it
vecRest == <<dbgVars, jniVars, recVars, ordVars, brVars>>
dbgRest == <<vecVars, jniVars, recVars, ordVars, brVars>>
jniRest == <<vecVars, dbgVars, recVars, ordVars, brVars>>
recRest == <<vecVars, dbgVars, jniVars, ordVars, brVars>>
ordRest == <<vecVars, dbgVars, jniVars, recVars, brVars>>
brRest == <<vecVars, dbgVars, recVars, ordVars>>

vars == <<regVars, voprfVars, sessVars, extVars>>

(***************************************************************************)
(* Option<T>: None is the empty sequence, Some(x) the one-element one.     *)
(***************************************************************************)
None == <<>>
Some(x) == <<x>>

(***************************************************************************)
(* RegisterError, and the order #[derive(Ord)] gives its variants: the     *)
(* declaration order InvalidAuth < Assertion < Transient.                  *)
(***************************************************************************)
RegisterError == {"InvalidAuth", "Assertion", "Transient"}

RegisterErrorOrd(e) ==
    CASE e = "InvalidAuth" -> 0
      [] e = "Assertion" -> 1
      [] e = "Transient" -> 2

\* insertion of e into a sequence already sorted by RegisterErrorOrd
RECURSIVE InsertSorted(_, _)
InsertSorted(e, s) ==
    IF s = <<>> THEN <<e>>
    ELSE IF RegisterErrorOrd(e) <= RegisterErrorOrd(Head(s)) THEN <<e>> \o s
    ELSE <<Head(s)>> \o InsertSorted(e, Tail(s))

\* found_errors.sort_unstable()
RECURSIVE sort_unstable(_)
sort_unstable(s) ==
    IF s = <<>> THEN <<>> ELSE InsertSorted(Head(s), sort_unstable(Tail(s)))

\* a mutant of FirstAfterSort: the sort is forgotten
FirstUnsorted(found_errors) == found_errors[1]

\* found_errors.sort_unstable(); found_errors[0]
FirstAfterSort(found_errors) == sort_unstable(found_errors)[1]

(***************************************************************************)
(* Results of the per-realm futures.                                       *)
(***************************************************************************)
Pending == [kind |-> "Pending", error |-> "-", generation |-> 0, found_earlier |-> FALSE]
Unsent == [kind |-> "Unsent", error |-> "-", generation |-> 0, found_earlier |-> FALSE]
OkResult(fe) == [kind |-> "Ok", error |-> "-", generation |-> 0, found_earlier |-> fe]
ErrorResult(e) == [kind |-> "Error", error |-> e, generation |-> 0, found_earlier |-> FALSE]
RetryResult(g) == [kind |-> "Retry", error |-> "-", generation |-> g, found_earlier |-> FALSE]

(***************************************************************************)
(* make_request(realm, request), as far as register depends on it: without *)
(* an auth token for the realm the request fails InvalidAuth and nothing   *)
(* is sent; with one, the request is sent and any outcome may come back.   *)
(***************************************************************************)
Resp(tag, g, f, z, e) ==
    [tag |-> tag, first_available |-> g, finalize_ok |-> f, size_ok |-> z,
     found_earlier_generations |-> e]

RequestErrors == {"Transient", "Assertion", "InvalidAuth"}

Register1Responses ==
    {Resp(t, 0, TRUE, TRUE, FALSE) : t \in RequestErrors \cup {"OtherVariant"}}
    \cup {Resp("Register1Ok", 0, f, z, FALSE) : f \in BOOLEAN, z \in BOOLEAN}
    \cup {Resp("Register1BadGeneration", g, TRUE, TRUE, FALSE) : g \in 0..MaxGen}

Register2Responses ==
    {Resp(t, 0, TRUE, TRUE, FALSE) :
        t \in RequestErrors \cup {"OtherVariant", "NotRegistering", "AlreadyRegistered"}}
    \cup {Resp("Register2Ok", 0, TRUE, TRUE, e) : e \in BOOLEAN}

\* Java_..._authTokenGetComplete: a null JString is None, any other Some(token)
authTokenGetComplete(auth_token_is_null) ==
    IF auth_token_is_null THEN None ELSE Some("token")

\* the token the provider delivers for a realm
auth_token_get(realm) == authTokenGetComplete(realm \notin tokens)

make_request(realm, responses) ==
    IF auth_token_get(realm) = None
    THEN {Resp("InvalidAuth", 0, TRUE, TRUE, FALSE)}
    ELSE responses

\* the requests a fan-out hands to the realms: one per realm that has a token
Sent(kind, realmSet, g, a) ==
    {[kind |-> kind, realm |-> i, generation |-> g, attempt |-> a] :
        i \in realmSet \cap tokens}

(***************************************************************************)
(* register1: the mapping of a realm's phase-1 outcome.                    *)
(***************************************************************************)
register1(resp) ==
    CASE resp.tag = "Transient" -> ErrorResult("Transient")
      [] resp.tag = "Assertion" -> ErrorResult("Assertion")
      [] resp.tag = "InvalidAuth" -> ErrorResult("InvalidAuth")
      [] resp.tag = "Register1Ok" ->
            IF ~resp.finalize_ok THEN ErrorResult("Assertion")
            ELSE IF ~resp.size_ok THEN ErrorResult("Assertion")
            ELSE OkResult(FALSE)
      [] resp.tag = "Register1BadGeneration" -> RetryResult(resp.first_available)
      [] OTHER -> ErrorResult("Assertion")

(***************************************************************************)
(* register2: the mapping of a realm's phase-2 outcome.                    *)
(***************************************************************************)
\* a mutant of register2: AlreadyRegistered is taken for a success
register2_already_registered_ok(resp) ==
    CASE resp.tag = "Transient" -> ErrorResult("Transient")
      [] resp.tag = "Assertion" -> ErrorResult("Assertion")
      [] resp.tag = "InvalidAuth" -> ErrorResult("InvalidAuth")
      [] resp.tag = "Register2Ok" -> OkResult(resp.found_earlier_generations)
      [] resp.tag = "AlreadyRegistered" -> OkResult(FALSE)
      [] OTHER -> ErrorResult("Assertion")

register2(resp) ==
    CASE resp.tag = "Transient" -> ErrorResult("Transient")
      [] resp.tag = "Assertion" -> ErrorResult("Assertion")
      [] resp.tag = "InvalidAuth" -> ErrorResult("InvalidAuth")
      [] resp.tag = "Register2Ok" -> OkResult(resp.found_earlier_generations)
      [] resp.tag \in {"NotRegistering", "AlreadyRegistered"} -> ErrorResult("Assertion")
      [] OTHER -> ErrorResult("Assertion")

(***************************************************************************)
(* register_generation, phase 1: join_all, then the loop over the results  *)
(* in realm order.                                                         *)
(***************************************************************************)
\* a mutant of join_all_ready: ready as soon as the threshold has succeeded
join_at_threshold_ready(results) ==
    Cardinality({i \in DOMAIN results : results[i].kind = "Ok"}) >= register_threshold

\* join_all(register1_requests).await returns once every future has completed
join_all_ready(results) ==
    \A i \in DOMAIN results : results[i].kind # "Pending"

\* a mutant of later_generation: the generation of the first Retry is kept
later_generation_first(g, later) == g

\* if g < generation { retry_generation = Some(generation) }
later_generation(g, later) == IF g < later THEN later ELSE g

\* a mutant of too_many_errors: off by one, r-1 successes are let through
too_many_errors_off_by_one(realms_len, found_errors_len, threshold) ==
    realms_len - found_errors_len + 1 < threshold

\* a mutant of too_many_errors: <= for <, failing with exactly r successes left
too_many_errors_at_threshold(realms_len, found_errors_len, threshold) ==
    realms_len - found_errors_len <= threshold

\* self.configuration.realms.len() - found_errors.len() < register_threshold
too_many_errors(realms_len, found_errors_len, threshold) ==
    realms_len - found_errors_len < threshold

\* a mutant of push_none: nothing is pushed for a realm that failed
push_none_forgotten(pins) == pins

\* oprfs_pin.push(None)
push_none(pins) == Append(pins, None)

\* the loop of lines 136-162 from position i on, and lines 163-167 after it
RECURSIVE Phase1Loop(_, _, _, _, _)
Phase1Loop(results, i, pins, retry_generation, found_errors) ==
    IF i > Len(results)
    THEN IF retry_generation # None
         THEN [kind |-> "Retry", error |-> "-", generation |-> retry_generation[1],
               oprfs_pin |-> <<>>]
         ELSE [kind |-> "Proceed", error |-> "-", generation |-> 0,
               oprfs_pin |-> pins]
    ELSE IF results[i].kind = "Ok"
    THEN Phase1Loop(results, i + 1, Append(pins, Some(i)), retry_generation,
                    found_errors)
    ELSE IF results[i].kind = "Error"
    THEN LET found == Append(found_errors, results[i].error)
         IN  IF too_many_errors(Len(results), Len(found), register_threshold)
             THEN [kind |-> "Error", error |-> FirstAfterSort(found),
                   generation |-> 0, oprfs_pin |-> <<>>]
             ELSE Phase1Loop(results, i + 1, push_none(pins), retry_generation,
                             found)
    ELSE IF results[i].kind = "Retry"
    THEN Phase1Loop(results, i + 1, pins,
                    IF retry_generation = None
                    THEN Some(results[i].generation)
                    ELSE Some(later_generation(retry_generation[1],
                                               results[i].generation)),
                    found_errors)
    ELSE \* join_all yields completed futures only
         Phase1Loop(results, i + 1, pins, retry_generation, found_errors)

Phase1(results) == Phase1Loop(results, 1, <<>>, None, <<>>)

NothingReceived == [register1 |-> None, register2 |-> None]

\* register_generation is entered: the register1 futures are created and polled
StartGeneration(g, a) ==
    /\ pc' = "register1"
    /\ attempt' = a
    /\ generation' = g
    /\ r1' = [i \in 1..n |-> Pending]
    /\ oprfs_pin' = <<>>
    /\ register2_args' = <<>>
    /\ received' = [i \in 1..n |-> NothingReceived]
    /\ r2' = [i \in 1..n |-> Unsent]
    /\ requests' = requests \cup Sent("Register1", 1..n, g, a)

Return(res, where) ==
    /\ pc' = "done"
    /\ result' = res
    /\ decided' = where

(***************************************************************************)
(* The group of the VOPRF.  Ristretto is a group of prime order l with     *)
(* base point B; here the order is a small prime and the point x*B is the  *)
(* number x, so that the identity is 0 and B is 1.  Scalars are the        *)
(* integers mod Order.                                                      *)
(***************************************************************************)
Primes == <<3, 5, 7, 11, 13>>
Order == Primes[OrderIndex]
Scalars == 0..(Order - 1)
Points == 0..(Order - 1)

\* Scalar * Scalar
ScalarMul(a, b) == (a * b) % Order
\* Scalar - Scalar
ScalarSub(a, b) == (a + Order - b) % Order
\* Scalar * Point
PointMul(s, point) == (s * point) % Order
\* Point + Point
PointAdd(a, b) == (a + b) % Order
\* Point::mul_base(&scalar)
mul_base(s) == s % Order

RECURSIVE ScalarPow(_, _)
ScalarPow(a, e) == IF e = 0 THEN 1 % Order ELSE ScalarMul(a, ScalarPow(a, e - 1))

\* Scalar::invert: the power Order - 2 (Fermat); zero is inverted to zero
ScalarInvert(a) == ScalarPow(a, Order - 2)

(***************************************************************************)
(* Byte strings.  A point or scalar is encoded in EncodedLen bytes, little *)
(* endian.  The canonical compressed encodings of points are the even      *)
(* numbers below 2 * Order (Ristretto: the non-negative field elements     *)
(* that decode to a point); every other string is rejected by decompress.  *)
(***************************************************************************)
EncodedLen == 32
Byte == 256
\* the serialized size of a point or scalar: its bytes and the 2-byte head
WireLen == 34

\* the little-endian EncodedLen-byte string of v < Byte^2
LittleEndian(v) ==
    [i \in 1..EncodedLen |->
        IF i = 1 THEN v % Byte ELSE IF i = 2 THEN (v \div Byte) % Byte ELSE 0]

\* the number a little-endian byte string holds, None when it is Byte^2 or more
FromLittleEndian(b) ==
    IF \E i \in 3..Len(b) : b[i] # 0 THEN None
    ELSE Some((IF Len(b) >= 1 THEN b[1] ELSE 0) + (IF Len(b) >= 2 THEN b[2] * Byte ELSE 0))

\* a mutant of compress: the encoding is not the one decompress reads
compress_odd(point) == LittleEndian(2 * point + 1)

\* RistrettoPoint::compress
compress(point) == LittleEndian(2 * point)

\* CompressedRistretto::decompress: None unless canonical
decompress(compressed) ==
    LET v == FromLittleEndian(compressed)
    IN  IF Len(compressed) # EncodedLen \/ v = None THEN None
        ELSE IF v[1] % 2 # 0 \/ v[1] \div 2 >= Order THEN None
        ELSE Some(v[1] \div 2)

\* Scalar::as_bytes / to_bytes
scalar_to_bytes(k) == LittleEndian(k)

\* Scalar::from_canonical_bytes: None unless below the order
scalar_from_canonical_bytes(b) ==
    LET v == FromLittleEndian(b)
    IN  IF Len(b) # EncodedLen \/ v = None THEN None
        ELSE IF v[1] >= Order THEN None
        ELSE v

(***************************************************************************)
(* Results: Ok(x) and Err(message).                                        *)
(***************************************************************************)
Ok(x) == [ok |-> TRUE, value |-> Some(x), error |-> ""]
Err(msg) == [ok |-> FALSE, value |-> None, error |-> msg]

(***************************************************************************)
(* DecompressedPoint.                                                      *)
(***************************************************************************)
\* impl PartialEq for DecompressedPoint: ct_eq on the compressed bytes
DecompressedPoint_eq(a, b) == a.compressed = b.compressed

\* a mutant of DecompressedPoint_from: the compressed form is not computed
\* from the point
DecompressedPoint_from_stale(uncompressed) ==
    [uncompressed |-> uncompressed, compressed |-> compress(0)]

\* impl From<Point> for DecompressedPoint
DecompressedPoint_from(uncompressed) ==
    [uncompressed |-> uncompressed, compressed |-> compress(uncompressed)]

\* a mutant of DecompressedPoint_try_from: a failed decompression is not an error
DecompressedPoint_try_from_unchecked(compressed) ==
    LET d == decompress(compressed)
    IN  Ok([uncompressed |-> IF d = None THEN 0 ELSE d[1], compressed |-> compressed])

\* impl TryFrom<CompressedPoint> for DecompressedPoint
DecompressedPoint_try_from(compressed) ==
    LET d == decompress(compressed)
    IN  IF d # None
        THEN Ok([uncompressed |-> d[1], compressed |-> compressed])
        ELSE Err("decompression failed: not canonical point encoding")

(***************************************************************************)
(* Marshalling: to_vec and from_slice write and read CBOR (ciborium); the  *)
(* bytes module writes a point or scalar as one CBOR byte string.          *)
(***************************************************************************)
\* the head of a CBOR byte string (major type 2) of the given length
CborBytesHead(len) == IF len < 24 THEN <<64 + len>> ELSE <<88, len>>

\* a mutant of to_vec: the byte string goes out without its CBOR head
to_vec_unframed(bytes) == bytes

\* marshalling::to_vec of a value the bytes module serializes
to_vec(bytes) == CborBytesHead(Len(bytes)) \o bytes

\* the byte string a reader finds at the front of w, None when there is none
CborReadBytes(w) ==
    IF Len(w) >= 1 /\ w[1] >= 64 /\ w[1] < 88 /\ Len(w) >= 1 + (w[1] - 64)
    THEN Some(SubSeq(w, 2, 1 + (w[1] - 64)))
    ELSE IF Len(w) >= 2 /\ w[1] = 88 /\ Len(w) >= 2 + w[2]
    THEN Some(SubSeq(w, 3, 2 + w[2]))
    ELSE None

\* bytes::Bytes::deserialize for a fixed-size value: EncodedLen bytes exactly
bytes_deserialize(w) ==
    LET b == CborReadBytes(w)
    IN  IF b = None THEN Err("invalid type")
        ELSE IF Len(b[1]) # EncodedLen THEN Err("invalid length")
        ELSE Ok(b[1])

Types == {"PrivateKey", "PublicKey", "BlindedInput", "BlindedOutput"}

\* impl Serialize: the bytes each type hands to the serializer
serialize(type, x) ==
    CASE type = "PrivateKey" -> scalar_to_bytes(x)
      [] type = "PublicKey" -> x
      [] OTHER -> x.compressed

\* marshalling::from_slice::<T>, through each type's Deserialize
from_slice(type, w) ==
    LET b == bytes_deserialize(w)
    IN  IF ~b.ok THEN b
        ELSE CASE type = "PrivateKey" ->
                    LET k == scalar_from_canonical_bytes(b.value[1])
                    IN  IF k = None THEN Err("invalid scalar") ELSE Ok(k[1])
               [] type = "PublicKey" -> Ok(b.value[1])
               [] OTHER -> DecompressedPoint_try_from(b.value[1])

(***************************************************************************)
(* Hashing.  Sha512 is a collision-free function of its input: the digest  *)
(* is the tagged input itself.                                             *)
(***************************************************************************)
Sha512(chunks) == <<"Sha512", chunks>>

RECURSIVE SumSeq(_)
SumSeq(b) == IF b = <<>> THEN 0 ELSE Head(b) + SumSeq(Tail(b))

\* Point::from_uniform_bytes: a fixed map of the 64-byte digest to a point
from_uniform_bytes(digest) ==
    (SumSeq(digest[2][1]) + Len(digest[2][1]) + 1) % Order

\* Point::hash_from_bytes::<Sha512>(input)
hash_from_bytes(bytes) == from_uniform_bytes(Sha512(<<bytes>>))

\* to_be8: the 8 bytes of len, big endian
to_be8(len) == <<0, 0, 0, 0, 0, 0, (len \div Byte) % Byte, len % Byte>>

\* hash_to_output(input, result)
hash_to_output(bytes, point) ==
    Sha512(<<"Juicebox_VOPRF_2023_1;", to_be8(Len(bytes)), bytes, compress(point)>>)

(***************************************************************************)
(* The VOPRF.                                                              *)
(***************************************************************************)
\* PublicKey::new_from_private
new_from_private(k) == compress(mul_base(k))

\* unoblivious_evaluate(private_key, input)
unoblivious_evaluate(k, bytes) ==
    LET input_hash == Sha512(<<bytes>>)
        input_point == from_uniform_bytes(input_hash)
    IN  hash_to_output(bytes, PointMul(k, input_point))

\* start(input, rng), the scalar b being what Scalar::random(rng) drew
start(bytes, b) ==
    LET input_point == hash_from_bytes(bytes)
    IN  [blinding_factor |-> b,
         blinded_input |-> DecompressedPoint_from(PointMul(b, input_point))]

\* finalize(input, blinding_factor, blinded_output)
finalize(bytes, b, out) ==
    hash_to_output(bytes, PointMul(ScalarInvert(b), out.uncompressed))

\* the challenge of the Chaum-Pedersen proof: a hash of the five points
\* reduced to a scalar
hash_to_challenge(u, v, w, v_t, w_t) ==
    (SumSeq(u) + 2 * SumSeq(v) + 3 * SumSeq(w) + 5 * SumSeq(v_t) + 7 * SumSeq(w_t) + 1)
        % Order

\* dleq::generate_proof(rng, beta, u, v, w), beta_t being what rng drew
dleq_generate_proof(beta_t, beta, u, v, w) ==
    LET v_t == compress(mul_base(beta_t))
        w_t == compress(PointMul(beta_t, u.uncompressed))
        c == hash_to_challenge(u.compressed, v, w.compressed, v_t, w_t)
    IN  [c |-> c, beta_z |-> ScalarSub(beta_t, ScalarMul(beta, c))]

\* dleq::verify_proof(u, v, w, proof)
dleq_verify_proof(u, v, w, pi) ==
    LET v_t == PointAdd(mul_base(pi.beta_z), PointMul(pi.c, v.uncompressed))
        w_t == PointAdd(PointMul(pi.beta_z, u.uncompressed),
                        PointMul(pi.c, w.uncompressed))
        c == hash_to_challenge(u.compressed, v.compressed, w.compressed,
                               compress(v_t), compress(w_t))
    IN  IF c = pi.c THEN Ok("verified") ELSE Err("invalid proof")

\* verify_proof(blinded_input, blinded_output, public_key, proof)
verify_proof(bi, bo, pk, pi) ==
    LET p == DecompressedPoint_try_from(pk)
    IN  IF ~p.ok THEN Err("invalid public key")
        ELSE dleq_verify_proof(bi, p.value[1], bo, pi)

\* a mutant of blind_evaluate: the blinded output is not the private key
\* times the blinded input, while the proof is made for the private key
blind_evaluate_other_output(k, pk, bi, beta_t) ==
    LET out == DecompressedPoint_from(
                   PointAdd(PointMul(k, bi.uncompressed), bi.uncompressed))
    IN  [blinded_output |-> out,
         proof |-> dleq_generate_proof(beta_t, k, bi, pk, out)]

\* blind_evaluate(private_key, public_key, blinded_input, rng)
blind_evaluate(k, pk, bi, beta_t) ==
    LET out == DecompressedPoint_from(PointMul(k, bi.uncompressed))
    IN  [blinded_output |-> out,
         proof |-> dleq_generate_proof(beta_t, k, bi, pk, out)]

(***************************************************************************)
(* The values register shares out.  The values of the cryptography are     *)
(* terms: an OPRF result names its key and input, a share names the        *)
(* dealing it comes from, its index and the threshold.                     *)
(***************************************************************************)
Pins == {"1234", "4321"}
Secrets == {"hello", "world"}
\* the secret of the register whose requests are followed one by one
RegisteredSecret == "hello"
Policies == [num_guesses : {1, 2}]

\* pin.hash(&pin_hashing_mode, &auth_token)
hash_pin(pin) == <<"hashed_pin", pin>>

\* the OPRF key realm i holds for a generation
oprf_key(i, g) == <<"oprf_key", i, g>>

\* OprfClient::blind, the realm's evaluation and finalize: the OPRF of the
\* hashed pin under the realm's key
oprf(key, hashed_pin) == <<"oprf", key, hashed_pin>>

\* TagGeneratingKey::new_random(): a key no other register_generation drew
new_random_tgk(g) == <<"tgk", g>>

\* a mutant of dealer: the dealing is made for register_threshold
dealer_register_threshold(threshold, secret, nonce, count) ==
    [i \in 1..count |->
        [dealing |-> <<secret, nonce>>, x |-> i, threshold |-> register_threshold]]

\* a mutant of dealer: every share handed out is the first one
dealer_first_share_only(threshold, secret, nonce, count) ==
    [i \in 1..count |->
        [dealing |-> <<secret, nonce>>, x |-> 1, threshold |-> threshold]]

\* Sharks(threshold).dealer_rng(secret, rng).take(count): the first count
\* shares of a dealing of the secret
dealer(threshold, secret, nonce, count) ==
    [i \in 1..count |->
        [dealing |-> <<secret, nonce>>, x |-> i, threshold |-> threshold]]

\* Sharks::recover: the secret of threshold or more shares of one dealing
sharks_recover(shares) ==
    IF shares = {} THEN None
    ELSE LET first == CHOOSE share \in shares : TRUE
         IN  IF /\ \A share \in shares : share.dealing = first.dealing
                /\ Cardinality({share.x : share \in shares}) >= first.threshold
             THEN Some(first.dealing[1])
             ELSE None

\* tgk_share.mask(&oprf_pin)
mask(tgk_share, oprf_pin) == [share |-> tgk_share, pad |-> oprf_pin]

\* the share a masked share yields under an OPRF result: the share that was
\* masked under the same result, a share of nothing under another
unmask(masked, oprf_pin) ==
    IF masked.pad = oprf_pin THEN masked.share
    ELSE [masked.share EXCEPT !.dealing = <<new_random_tgk(-1), -1>>]

\* tgk.tag(&realm.public_key)
tag(tgk, realm) == <<"tag", tgk, realm>>

\* zip4(a, b, c, d): the tuples of the entries at the same position, as
\* many as the shortest of the four has
zip4(a, b, c, d) ==
    LET len == CHOOSE m \in {Len(a), Len(b), Len(c), Len(d)} :
                   \A k \in {Len(a), Len(b), Len(c), Len(d)} : m <= k
    IN  [k \in 1..len |-> <<a[k], b[k], c[k], d[k]>>]

\* a mutant of register2_requests: a realm without an OPRF result is sent a
\* request as well
RECURSIVE register2_requests_unfiltered(_, _)
register2_requests_unfiltered(zipped, g) ==
    IF zipped = <<>> THEN <<>>
    ELSE <<[realm |-> Head(zipped)[1], generation |-> g,
            oprf_pin |-> IF Head(zipped)[2] = None THEN 0 ELSE Head(zipped)[2][1],
            tgk_share |-> Head(zipped)[3], secret_share |-> Head(zipped)[4]]>>
         \o register2_requests_unfiltered(Tail(zipped), g)

\* .filter_map(|(realm, oprf_pin, tgk_share, secret_share)| oprf_pin.map(..)):
\* the Register2Args of the realms that have an OPRF result, in realm order
RECURSIVE register2_requests(_, _)
register2_requests(zipped, g) ==
    IF zipped = <<>> THEN <<>>
    ELSE (IF Head(zipped)[2] = None THEN <<>>
          ELSE <<[realm |-> Head(zipped)[1], generation |-> g,
                  oprf_pin |-> Head(zipped)[2][1], tgk_share |-> Head(zipped)[3],
                  secret_share |-> Head(zipped)[4]]>>)
         \o register2_requests(Tail(zipped), g)

\* the realms of a sequence of Register2Args
Register2Realms(args) == {args[k].realm : k \in DOMAIN args}

(***************************************************************************)
(* The actions.                                                            *)
(***************************************************************************)
\* Client::register_first_available_generation is called
Register ==
    /\ pc = "idle"
    /\ StartGeneration(0, 1)
    /\ UNCHANGED <<n, register_threshold, tokens, result, decided, cleanup>>
    /\ UNCHANGED <<voprfVars, sessVars, extVars>>

\* the register1 future of realm i completes
Register1Complete(i) ==
    /\ pc = "register1"
    /\ r1[i].kind = "Pending"
    /\ \E resp \in make_request(i, Register1Responses) :
          /\ r1' = [r1 EXCEPT ![i] = register1(resp)]
          /\ received' = [received EXCEPT ![i].register1 = Some(resp)]
    /\ UNCHANGED <<n, register_threshold, tokens, pc, attempt, generation,
                   oprfs_pin, register2_args, r2, requests, result, decided,
                   cleanup>>
    /\ UNCHANGED <<voprfVars, sessVars, extVars>>

\* a mutant of retry_allowed: every Retry is followed by another attempt
retry_allowed_always(a) == TRUE

\* register_first_available_generation calls register_generation again on
\* the Retry of its first call; the Retry of the second is an Assertion
retry_allowed(a) == a = 1

\* join_all has returned: the loop, the sharing and the phase-2 fan-out
Register1Joined ==
    /\ pc = "register1"
    /\ join_all_ready(r1)
    /\ LET p == Phase1(r1)
       IN  CASE p.kind = "Error" ->
                  /\ Return(p.error, "phase1")
                  /\ UNCHANGED <<attempt, generation, r1, oprfs_pin,
                                 register2_args, r2, requests, received>>
             [] p.kind = "Retry" ->
                  IF retry_allowed(attempt)
                  THEN /\ StartGeneration(p.generation, 2)
                       /\ UNCHANGED <<result, decided>>
                  ELSE /\ Return("Assertion", "retry")
                       /\ UNCHANGED <<attempt, generation, r1, oprfs_pin,
                                      register2_args, r2, requests, received>>
             [] OTHER ->
                  LET tgk == new_random_tgk(generation)
                      tgk_shares == dealer(recover_threshold, tgk, generation, n)
                      secret_shares ==
                          dealer(recover_threshold, RegisteredSecret, generation, n)
                      args == register2_requests(
                                  zip4([i \in 1..n |-> i], p.oprfs_pin, tgk_shares,
                                       secret_shares),
                                  generation)
                  IN
                  /\ oprfs_pin' = p.oprfs_pin
                  /\ register2_args' = args
                  /\ r2' = [i \in 1..n |->
                              IF i \in Register2Realms(args) THEN Pending
                              ELSE Unsent]
                  /\ requests' = requests \cup
                        UNION {Sent("Register2", {args[k].realm}, args[k].generation,
                                    attempt) : k \in DOMAIN args}
                  /\ IF args = <<>>
                     THEN Return("Ok", "phase2")
                     ELSE /\ pc' = "register2"
                          /\ UNCHANGED <<result, decided>>
                  /\ UNCHANGED <<attempt, generation, r1, received>>
    /\ UNCHANGED <<n, register_threshold, tokens, cleanup>>
    /\ UNCHANGED <<voprfVars, sessVars, extVars>>

\* a mutant of delete_up_to_bound: the bound is the generation after
delete_up_to_bound_inclusive(g) == Some(g + 1)

\* self.delete_up_to(Some(generation)): the up_to of the DeleteRequests
delete_up_to_bound(g) == Some(g)

\* the register2 future of realm i completes; try_join_all returns the first
\* error at once, and Ok when every future has succeeded
Register2Returns(i, resp) ==
    /\ pc = "register2"
    /\ r2[i].kind = "Pending"
    /\ LET res == register2(resp)
           all == [r2 EXCEPT ![i] = res]
       IN  /\ r2' = all
           /\ received' = [received EXCEPT ![i].register2 = Some(resp)]
           /\ IF res.kind = "Error"
              THEN /\ Return(res.error, "phase2")
                   /\ UNCHANGED requests
              ELSE IF \E j \in 1..n : all[j].kind = "Pending"
              THEN UNCHANGED <<pc, result, decided, requests>>
              ELSE IF attempt = 2 /\ \E j \in 1..n : all[j].found_earlier
              THEN /\ pc' = "delete_up_to"
                   /\ requests' = requests \cup
                          Sent("Delete", 1..n, delete_up_to_bound(generation)[1],
                               attempt)
                   /\ UNCHANGED <<result, decided>>
              ELSE /\ Return("Ok", "phase2")
                   /\ UNCHANGED requests
    /\ UNCHANGED <<n, register_threshold, tokens, attempt, generation, r1,
                   oprfs_pin, register2_args, cleanup>>

\* the register2 future of realm i completes with some outcome
Register2Complete(i) ==
    /\ \E resp \in make_request(i, Register2Responses) : Register2Returns(i, resp)
    /\ UNCHANGED <<voprfVars, sessVars, extVars>>

\* phase 2 has started: what each realm asked will answer is settled, the
\* order in which the answers arrive is not
PlanAnswers(plan) ==
    /\ pc = "register2"
    /\ planned = None
    /\ \A i \in 1..n : r2[i].kind \in {"Pending", "Unsent"}
    /\ \A i \in 1..n :
          IF r2[i].kind = "Pending"
          THEN plan[i] \in make_request(i, Register2Responses)
          ELSE plan[i] = Resp("Unsent", 0, TRUE, TRUE, FALSE)
    /\ planned' = Some(plan)
    /\ UNCHANGED <<regVars, voprfVars, sessVars, ordRest>>

\* the register2 future of realm i completes with the outcome settled for it
PlannedRegister2Complete(i) ==
    /\ planned # None
    /\ Register2Returns(i, planned[1][i])
    /\ UNCHANGED <<voprfVars, sessVars, extVars>>

\* a mutant of after_delete_up_to: an error of the cleanup is returned
after_delete_up_to_checked(outcome) == outcome

\* _ = self.delete_up_to(Some(generation)).await; Ok(())
after_delete_up_to(outcome) == "Ok"

\* delete_up_to(Some(generation)) returns Ok or an error; register returns
DeleteUpToComplete(outcome) ==
    /\ pc = "delete_up_to"
    /\ cleanup' = outcome
    /\ Return(after_delete_up_to(outcome), "cleanup")
    /\ UNCHANGED <<n, register_threshold, tokens, attempt, generation, r1,
                   oprfs_pin, register2_args, r2, requests, received>>
    /\ UNCHANGED <<voprfVars, sessVars, extVars>>

(***************************************************************************)
(* A VOPRF run, step by step, and the marshalling of its values.           *)
(***************************************************************************)
InputBytes == {0, 1}
Inputs == UNION {[1..len -> InputBytes] : len \in 0..MaxInputLen}

\* byte strings a peer may send in place of a serialized point or scalar
HighByteString == [i \in 1..EncodedLen |-> IF i = EncodedLen THEN 128 ELSE 0]
ShortString == [i \in 1..(EncodedLen - 1) |-> 0]
WireCandidates ==
    {to_vec(LittleEndian(v)) : v \in 0..(2 * Order + 1)}
    \cup {to_vec(HighByteString), to_vec(ShortString),
          <<88, EncodedLen>> \o ShortString,
          <<120, EncodedLen>> \o LittleEndian(0),
          <<>>}

\* PrivateKey::random and PublicKey::new_from_private
PrivateKeyRandom(k) ==
    /\ vpc = "init"
    /\ vpc' = "keyed"
    /\ private_key' = Some(k)
    /\ public_key' = Some(new_from_private(k))
    /\ UNCHANGED <<input, blinding_factor, blinded_input, blinded_output, proof,
                   verified, output, wire_type, wire_value, wire, decoded>>
    /\ UNCHANGED <<regVars, sessVars, extVars>>

\* the client calls start
Start(bytes, b) ==
    /\ vpc = "keyed"
    /\ vpc' = "started"
    /\ input' = bytes
    /\ blinding_factor' = Some(start(bytes, b).blinding_factor)
    /\ blinded_input' = Some(start(bytes, b).blinded_input)
    /\ UNCHANGED <<private_key, public_key, blinded_output, proof, verified,
                   output, wire_type, wire_value, wire, decoded>>
    /\ UNCHANGED <<regVars, sessVars, extVars>>

\* the server calls blind_evaluate
BlindEvaluate(beta_t) ==
    /\ vpc = "started"
    /\ vpc' = "evaluated"
    /\ LET e == blind_evaluate(private_key[1], public_key[1], blinded_input[1],
                               beta_t)
       IN  /\ blinded_output' = Some(e.blinded_output)
           /\ proof' = Some(e.proof)
    /\ UNCHANGED <<private_key, public_key, input, blinding_factor,
                   blinded_input, verified, output, wire_type, wire_value, wire,
                   decoded>>
    /\ UNCHANGED <<regVars, sessVars, extVars>>

\* the client reads the public key it verifies with from bytes it was given
ReceivePublicKey(w) ==
    /\ vpc = "evaluated"
    /\ verified = None
    /\ public_key = Some(new_from_private(private_key[1]))
    /\ from_slice("PublicKey", w).ok
    /\ public_key' = from_slice("PublicKey", w).value
    /\ UNCHANGED <<vpc, private_key, input, blinding_factor, blinded_input,
                   blinded_output, proof, verified, output, wire_type,
                   wire_value, wire, decoded>>
    /\ UNCHANGED <<regVars, sessVars, extVars>>

\* the client calls verify_proof
VerifyProof ==
    /\ vpc = "evaluated"
    /\ verified = None
    /\ verified' = Some(verify_proof(blinded_input[1], blinded_output[1],
                                     public_key[1], proof[1]))
    /\ UNCHANGED <<vpc, private_key, public_key, input, blinding_factor,
                   blinded_input, blinded_output, proof, output, wire_type,
                   wire_value, wire, decoded>>
    /\ UNCHANGED <<regVars, sessVars, extVars>>

\* the client calls finalize
Finalize ==
    /\ vpc = "evaluated"
    /\ vpc' = "finalized"
    /\ output' = Some(finalize(input, blinding_factor[1], blinded_output[1]))
    /\ UNCHANGED <<private_key, public_key, input, blinding_factor,
                   blinded_input, blinded_output, proof, verified, wire_type,
                   wire_value, wire, decoded>>
    /\ UNCHANGED <<regVars, sessVars, extVars>>

\* the value of a type the run holds, None when it holds none yet
Held(type) ==
    CASE type = "PrivateKey" -> private_key
      [] type = "PublicKey" -> public_key
      [] type = "BlindedInput" -> blinded_input
      [] OTHER -> blinded_output

\* marshalling::to_vec(&value) on a value of the run
ToVec(type) ==
    /\ vpc \in {"keyed", "started", "evaluated", "finalized"}
    /\ verified = None
    /\ public_key = Some(new_from_private(private_key[1]))
    /\ Held(type) # None
    /\ vpc' = "serialized"
    /\ wire_type' = type
    /\ wire_value' = Held(type)
    /\ wire' = to_vec(serialize(type, Held(type)[1]))
    /\ UNCHANGED <<private_key, public_key, input, blinding_factor,
                   blinded_input, blinded_output, proof, verified, output,
                   decoded>>
    /\ UNCHANGED <<regVars, sessVars, extVars>>

\* bytes arrive from a peer, to be read as a value of the given type
ReceiveBytes(type, w) ==
    /\ vpc = "init"
    /\ vpc' = "received"
    /\ wire_type' = type
    /\ wire_value' = None
    /\ wire' = w
    /\ UNCHANGED <<private_key, public_key, input, blinding_factor,
                   blinded_input, blinded_output, proof, verified, output,
                   decoded>>
    /\ UNCHANGED <<regVars, sessVars, extVars>>

\* marshalling::from_slice::<T>(&wire)
FromSlice ==
    /\ vpc \in {"serialized", "received"}
    /\ vpc' = "deserialized"
    /\ decoded' = Some(from_slice(wire_type, wire))
    /\ UNCHANGED <<private_key, public_key, input, blinding_factor,
                   blinded_input, blinded_output, proof, verified, output,
                   wire_type, wire_value, wire>>
    /\ UNCHANGED <<regVars, sessVars, extVars>>

(***************************************************************************)
(* The requests of the secrets protocol and the session they travel in.    *)
(***************************************************************************)
SecretsRequest == {"Register1", "Register2", "Recover1", "Recover2", "Delete"}

\* a mutant of needs_forward_secrecy: Register2 is taken for a request that
\* may ride on the handshake
needs_forward_secrecy_register2_false(request) == request = "Recover2"

\* SecretsRequest::needs_forward_secrecy
needs_forward_secrecy(request) ==
    CASE request = "Register1" -> FALSE
      [] request = "Register2" -> TRUE
      [] request = "Recover1" -> FALSE
      [] request = "Recover2" -> TRUE
      [] request = "Delete" -> FALSE

\* ClientRequest: its kind, the variant of its NoiseRequest, the SecretsRequest
\* inside ("-" for none), and the state of the session when it was sent
ClientRequest(kind, encrypted, inner) ==
    [kind |-> kind, encrypted |-> encrypted, inner |-> inner, session |-> sess]

ClientResponse ==
    {"Ok", "Unavailable", "InvalidAuth", "MissingSession", "SessionError",
     "DecodingError"}

\* make_request steps 1-4: resolve or establish the session and send
Dispatch(request, retried) ==
    /\ Len(sent) < MaxSent
    /\ IF sess = "Established"
       THEN /\ sent' = Append(sent, ClientRequest("SecretsRequest", "Transport", request))
            /\ cur' = Some([request |-> request, retried |-> retried,
                            awaiting |-> "transport"])
            /\ UNCHANGED sess
       ELSE IF needs_forward_secrecy(request)
       THEN /\ sent' = Append(sent, ClientRequest("HandshakeOnly", "Handshake", "-"))
            /\ cur' = Some([request |-> request, retried |-> retried,
                            awaiting |-> "handshake_only"])
            /\ sess' = "Handshaking"
       ELSE /\ sent' = Append(sent, ClientRequest("SecretsRequest", "Handshake", request))
            /\ cur' = Some([request |-> request, retried |-> retried,
                            awaiting |-> "handshake_with_request"])
            /\ sess' = "Handshaking"

FinishRequest(res) ==
    /\ cur' = None
    /\ sresult' = res

\* make_request(realm, request) is called
MakeRequest(request) ==
    /\ cur = None
    /\ Dispatch(request, FALSE)
    /\ response' = "none"
    /\ UNCHANGED sresult
    /\ UNCHANGED <<regVars, voprfVars, extVars>>

\* a mutant of may_rehandshake: a session failure is always answered by a
\* fresh handshake
may_rehandshake_always(request_state) == TRUE

\* whether a session failure may be answered by a fresh handshake: once per
\* logical request
may_rehandshake(request_state) == ~request_state.retried

\* the realm's response arrives: make_request step 5
ReceiveResponse(resp) ==
    /\ cur # None
    /\ response' = resp
    /\ CASE resp = "Ok" ->
              IF cur[1].awaiting = "handshake_only"
              THEN /\ Len(sent) < MaxSent
                   /\ sess' = "Established"
                   /\ sent' = Append(sent,
                         [kind |-> "SecretsRequest", encrypted |-> "Transport",
                          inner |-> cur[1].request, session |-> "Established"])
                   /\ cur' = Some([cur[1] EXCEPT !.awaiting = "transport"])
                   /\ UNCHANGED sresult
              ELSE /\ sess' = "Established"
                   /\ FinishRequest("Ok")
                   /\ UNCHANGED sent
         [] resp \in {"MissingSession", "SessionError"} ->
              IF may_rehandshake(cur[1])
              THEN /\ Len(sent) < MaxSent
                   /\ sess' = "Handshaking"
                   /\ IF needs_forward_secrecy(cur[1].request)
                      THEN /\ sent' = Append(sent,
                                 [kind |-> "HandshakeOnly", encrypted |-> "Handshake",
                                  inner |-> "-", session |-> "Absent"])
                           /\ cur' = Some([cur[1] EXCEPT !.retried = TRUE,
                                                         !.awaiting = "handshake_only"])
                      ELSE /\ sent' = Append(sent,
                                 [kind |-> "SecretsRequest", encrypted |-> "Handshake",
                                  inner |-> cur[1].request, session |-> "Absent"])
                           /\ cur' = Some([cur[1] EXCEPT !.retried = TRUE,
                                                         !.awaiting = "handshake_with_request"])
                   /\ UNCHANGED sresult
              ELSE /\ sess' = "Absent"
                   /\ FinishRequest("Transient")
                   /\ UNCHANGED sent
         [] OTHER ->
              /\ sess' = IF sess = "Handshaking" THEN "Absent" ELSE sess
              /\ FinishRequest(CASE resp = "Unavailable" -> "Transient"
                                 [] resp = "InvalidAuth" -> "InvalidAuth"
                                 [] OTHER -> "Assertion")
              /\ UNCHANGED sent
    /\ UNCHANGED <<regVars, voprfVars, extVars>>

\* the session lifetime passes without use
SessionExpire ==
    /\ sess = "Established"
    /\ cur = None
    /\ sess' = "Expired"
    /\ UNCHANGED <<cur, sent, sresult, response>>
    /\ UNCHANGED <<regVars, voprfVars, extVars>>

(***************************************************************************)
(* tests::run_with_inputs: a VOPRF run whose only randomness is a          *)
(* ManualRng that hands out the bytes of three seeds.                      *)
(***************************************************************************)
\* the bytes Scalar::random asks its rng for
SeedLen == 64

HexDigits == <<"0", "1", "2", "3", "4", "5", "6", "7", "8", "9",
               "a", "b", "c", "d", "e", "f">>

\* hex::encode, and write!(f, "{byte:02x}") over the bytes: two lowercase
\* hex digits a byte
hex_encode(bytes) ==
    [i \in 1..(2 * Len(bytes)) |->
        IF i % 2 = 1 THEN HexDigits[(bytes[(i + 1) \div 2] \div 16) + 1]
        ELSE HexDigits[(bytes[i \div 2] % 16) + 1]]

\* hex::encode of a digest
hex_encode_digest(digest) == <<"hex", digest>>

\* the little-endian number in bytes lo..hi reduced by the order, with the
\* reduced weight of the byte after them
RECURSIVE WideReduce(_, _, _)
WideReduce(bytes, lo, hi) ==
    IF lo > hi THEN [value |-> 0, weight |-> 1 % Order]
    ELSE IF lo = hi THEN [value |-> bytes[lo] % Order, weight |-> Byte % Order]
    ELSE LET mid == (lo + hi) \div 2
             low == WideReduce(bytes, lo, mid)
             high == WideReduce(bytes, mid + 1, hi)
         IN  [value |-> (low.value + low.weight * high.value) % Order,
              weight |-> (low.weight * high.weight) % Order]

\* Scalar::from_bytes_mod_order_wide: the little-endian number, reduced
from_bytes_mod_order_wide(bytes) == WideReduce(bytes, 1, Len(bytes)).value

\* ManualRng::try_fill_bytes: the first len bytes of the entropy are drained
try_fill_bytes(rng, len) ==
    IF Len(rng) >= len
    THEN Ok([bytes |-> SubSeq(rng, 1, len), rng |-> SubSeq(rng, len + 1, Len(rng))])
    ELSE Err("CUSTOM_START")

\* a mutant of Scalar_random: the scalar is made of half the bytes
Scalar_random_narrow(rng) ==
    LET filled == try_fill_bytes(rng, SeedLen \div 2)
    IN  IF ~filled.ok THEN filled
        ELSE Ok([scalar |-> from_bytes_mod_order_wide(filled.value[1].bytes),
                 rng |-> filled.value[1].rng])

\* Scalar::random(rng): SeedLen bytes of the rng, reduced to a scalar
Scalar_random(rng) ==
    LET filled == try_fill_bytes(rng, SeedLen)
    IN  IF ~filled.ok THEN filled
        ELSE Ok([scalar |-> from_bytes_mod_order_wide(filled.value[1].bytes),
                 rng |-> filled.value[1].rng])

\* a seed: SeedLen bytes
Seeds == {[i \in 1..SeedLen |-> IF i = 1 THEN v ELSE 0] : v \in 0..MaxSeed}

TestInputs ==
    [input : Inputs, private_key_seed : Seeds, blinding_factor_seed : Seeds,
     beta_t_seed : Seeds]

NoRun ==
    [private_key |-> None, public_key |-> None, blinding_factor |-> None,
     blinded_input |-> None, blinded_output |-> None, proof |-> None]

\* run_with_inputs: let mut rng = ManualRng { entropy: the three seeds }
NewManualRng ==
    /\ tpc = "idle"
    /\ Len(test_outputs) < MaxRuns
    /\ tpc' = "rng"
    /\ entropy' = test_inputs.private_key_seed \o test_inputs.blinding_factor_seed
                      \o test_inputs.beta_t_seed
    /\ run' = NoRun
    /\ UNCHANGED <<test_inputs, test_outputs>>
    /\ UNCHANGED <<regVars, voprfVars, sessVars, vecRest>>

\* run_with_inputs: PrivateKey::random(&mut rng), new_from_private
RunPrivateKey ==
    /\ tpc = "rng"
    /\ Scalar_random(entropy).ok
    /\ LET drawn == Scalar_random(entropy).value[1]
       IN  /\ entropy' = drawn.rng
           /\ run' = [run EXCEPT !.private_key = Some(drawn.scalar),
                                  !.public_key = Some(new_from_private(drawn.scalar))]
    /\ tpc' = "keyed"
    /\ UNCHANGED <<test_inputs, test_outputs>>
    /\ UNCHANGED <<regVars, voprfVars, sessVars, vecRest>>

\* run_with_inputs: start(&input, &mut rng)
RunStart ==
    /\ tpc = "keyed"
    /\ Scalar_random(entropy).ok
    /\ LET drawn == Scalar_random(entropy).value[1]
           started == start(test_inputs.input, drawn.scalar)
       IN  /\ entropy' = drawn.rng
           /\ run' = [run EXCEPT !.blinding_factor = Some(started.blinding_factor),
                                  !.blinded_input = Some(started.blinded_input)]
    /\ tpc' = "started"
    /\ UNCHANGED <<test_inputs, test_outputs>>
    /\ UNCHANGED <<regVars, voprfVars, sessVars, vecRest>>

\* run_with_inputs: blind_evaluate(&private_key, &public_key, &blinded_input,
\* &mut rng), the proof's nonce being drawn from the rng
RunBlindEvaluate ==
    /\ tpc = "started"
    /\ Scalar_random(entropy).ok
    /\ LET drawn == Scalar_random(entropy).value[1]
           e == blind_evaluate(run.private_key[1], run.public_key[1],
                               run.blinded_input[1], drawn.scalar)
       IN  /\ entropy' = drawn.rng
           /\ run' = [run EXCEPT !.blinded_output = Some(e.blinded_output),
                                  !.proof = Some(e.proof)]
    /\ tpc' = "evaluated"
    /\ UNCHANGED <<test_inputs, test_outputs>>
    /\ UNCHANGED <<regVars, voprfVars, sessVars, vecRest>>

\* run_with_inputs: verify_proof and finalize under their assertions, and the
\* TestOutputs returned; a failed assertion panics
RunFinalize ==
    /\ tpc = "evaluated"
    /\ LET out == finalize(test_inputs.input, run.blinding_factor[1],
                           run.blinded_output[1])
           accepted == verify_proof(run.blinded_input[1], run.blinded_output[1],
                                    run.public_key[1], run.proof[1]).ok
           expected == unoblivious_evaluate(run.private_key[1], test_inputs.input)
       IN  IF accepted /\ out = expected
           THEN /\ test_outputs' = Append(test_outputs,
                    [private_key |-> hex_encode(scalar_to_bytes(run.private_key[1])),
                     public_key |-> hex_encode(run.public_key[1]),
                     blinding_factor |->
                         hex_encode(scalar_to_bytes(run.blinding_factor[1])),
                     blinded_input |-> hex_encode(run.blinded_input[1].compressed),
                     blinded_output |-> hex_encode(run.blinded_output[1].compressed),
                     proof_c |-> hex_encode(scalar_to_bytes(run.proof[1].c)),
                     proof_beta_z |-> hex_encode(scalar_to_bytes(run.proof[1].beta_z)),
                     output |-> hex_encode_digest(out)])
                /\ tpc' = "idle"
           ELSE /\ test_outputs' = test_outputs
                /\ tpc' = "panicked"
    /\ UNCHANGED <<test_inputs, entropy, run>>
    /\ UNCHANGED <<regVars, voprfVars, sessVars, vecRest>>

(***************************************************************************)
(* fmt::Debug.  A text is the sequence of the pieces written to the        *)
(* formatter.                                                              *)
(***************************************************************************)
SecretTypes ==
    {"InputHash", "BlindedInput", "BlindedOutput", "Output", "PrivateKey",
     "BlindingFactor"}

NoiseTypes ==
    {"NoiseRequest::Handshake", "NoiseRequest::Transport",
     "NoiseResponse::Handshake", "NoiseResponse::Transport"}

\* session lifetimes a realm grants, in milliseconds
Lifetimes == {0, 1}

\* the values of each type
Values(type) ==
    CASE type = "InputHash" -> {Sha512(<<bytes>>) : bytes \in Inputs}
      [] type \in {"BlindedInput", "BlindedOutput"} ->
            {DecompressedPoint_from(point) : point \in Points}
      [] type = "Output" ->
            {hash_to_output(bytes, point) : bytes \in Inputs, point \in Points}
      [] type \in {"PrivateKey", "BlindingFactor"} -> Scalars
      [] type = "PublicKey" -> {compress(point) : point \in Points}
      [] type = "NoiseRequest::Handshake" -> [handshake : Inputs]
      [] type = "NoiseResponse::Handshake" ->
            [handshake : Inputs, session_lifetime : Lifetimes]
      [] OTHER -> [ciphertext : Inputs]

\* a mutant of fmt: the Debug a derive would write, the value after the name
fmt_derived(type, value) == <<type, "(", value, ")">>

\* fmt::Debug::fmt of each type
fmt(type, value) ==
    CASE type = "InputHash" -> <<"InputHash", "(REDACTED)">>
      [] type = "BlindedInput" -> <<"BlindedInput", "(REDACTED)">>
      [] type = "BlindedOutput" -> <<"BlindedOutput", "(REDACTED)">>
      [] type = "Output" -> <<"Output", "(REDACTED)">>
      [] type = "PrivateKey" -> <<"PrivateKey", "(REDACTED)">>
      [] type = "BlindingFactor" -> <<"BlindingFactor", "(REDACTED)">>
      [] type = "PublicKey" -> <<"PublicKey", "(">> \o hex_encode(value) \o <<")">>
      [] type = "NoiseRequest::Handshake" ->
            <<"NoiseRequest::Handshake", " { .. }">>
      [] type = "NoiseRequest::Transport" ->
            <<"NoiseRequest::Transport", " { .. }">>
      [] type = "NoiseResponse::Handshake" ->
            <<"NoiseResponse::Handshake", " { ", "session_lifetime", ": ",
              value.session_lifetime, ", .. }">>
      [] type = "NoiseResponse::Transport" ->
            <<"NoiseResponse::Transport", " { .. }">>

\* a value is formatted with {:?}; two formatted values are kept, to compare
Format(type, value) ==
    /\ Len(logged) < 2
    /\ logged' = Append(logged, [type |-> type, value |-> value,
                                 text |-> fmt(type, value)])
    /\ UNCHANGED <<regVars, voprfVars, sessVars, dbgRest>>

(***************************************************************************)
(* The JNI bridge.  A Java byte is an i8 and a Java short an i16; the SDK  *)
(* takes u8 thresholds and u16 guess counts.                               *)
(***************************************************************************)
\* the number of values of a u16
U16 == 65536
\* the largest jshort
JShortMax == 32767
\* the largest u8
U8Max == 255

\* value as u16 as jshort: the i16 of the same 16 bits
as_jshort(value) == IF value > JShortMax THEN value - U16 ELSE value

\* jshort.try_into(): the u16 of a jshort that is not negative
jshort_try_into_u16(value) == IF value >= 0 THEN Ok(value) ELSE Err("TryFromIntError")

\* get_byte: the field as u8, by try_into().unwrap()
get_byte(obj, name) == IF obj[name] >= 0 THEN Ok(obj[name]) ELSE Err("TryFromIntError")

\* a mutant of get_configuration: the two thresholds are read from each
\* other's field
get_configuration_swapped(obj) ==
    LET register_byte == get_byte(obj, "recoverThreshold")
        recover_byte == get_byte(obj, "registerThreshold")
    IN  IF ~register_byte.ok \/ ~recover_byte.ok
        THEN Err("TryFromIntError")
        ELSE Ok([realms |-> obj.realms,
                 register_threshold |-> register_byte.value[1],
                 recover_threshold |-> recover_byte.value[1]])

\* get_configuration: the sdk::Configuration of a Java Configuration; realms
\* is the number of realms
get_configuration(obj) ==
    LET register_byte == get_byte(obj, "registerThreshold")
        recover_byte == get_byte(obj, "recoverThreshold")
    IN  IF ~register_byte.ok \/ ~recover_byte.ok
        THEN Err("TryFromIntError")
        ELSE Ok([realms |-> obj.realms,
                 register_threshold |-> register_byte.value[1],
                 recover_threshold |-> recover_byte.value[1]])

\* the invariants of a Configuration
ConfigurationInvariant(realms, register, recover) ==
    /\ 1 <= recover
    /\ recover <= register
    /\ register <= realms
    /\ realms <= U8Max

\* sdk::Client::with_tokio: a Client is made of a Configuration that
\* satisfies the invariants, and of no other
Client_new(configuration) ==
    IF ConfigurationInvariant(configuration.realms,
                              configuration.register_threshold,
                              configuration.recover_threshold)
    THEN Ok(configuration)
    ELSE Err("invalid configuration")

\* the Java Configurations a host may pass
JavaConfigurations ==
    [registerThreshold : -1..(MaxRealms + 1),
     recoverThreshold : -1..(MaxRealms + 1),
     realms : 0..MaxRealms \cup {U8Max, U8Max + 1}]

\* the variants of the error enums, in declaration order (the Java enums
\* list the same constants in the same order)
ErrorVariants(name) ==
    CASE name = "Register" -> <<"InvalidAuth", "Assertion", "Transient">>
      [] name = "Delete" -> <<"InvalidAuth", "Assertion", "Transient">>
      [] name = "Recover" -> <<"InvalidPin", "NotRegistered", "Assertion",
                               "Transient", "InvalidAuth", "NoGuesses">>

\* error as i32: the discriminant of the bridge's error enum
as_i32(name, error) ==
    CHOOSE k \in 0..(Len(ErrorVariants(name)) - 1) : ErrorVariants(name)[k + 1] = error

\* Java: <name>Error.values()[index]
JavaErrorValue(name, index) == ErrorVariants(name)[index + 1]

\* a mutant of throw: the exception is of the Register classes whatever the name
throw_register(error_code, name) ==
    [class |-> "RegisterException", error_type |-> "RegisterError",
     error |-> JavaErrorValue("Register", error_code), guesses_remaining |-> None]

\* throw(env, error_code, name): the <name>Exception thrown, made of the
\* constant of <name>Error at index error_code
throw(error_code, name) ==
    [class |-> IF name = "Register" THEN "RegisterException" ELSE "DeleteException",
     error_type |-> IF name = "Register" THEN "RegisterError" ELSE "DeleteError",
     error |-> JavaErrorValue(name, error_code), guesses_remaining |-> None]

\* guess counts, at the ends of the u16 and the jshort ranges
GuessValues == {0, 1, 2, JShortMax, JShortMax + 1, U16 - 1}

\* the secrets a recover may return
SecretBytes == {<<>>, <<0>>, <<1, 0>>}

\* what sdk.register and sdk.delete may return
SdkResults(name) == {Ok("unit")} \cup {Err(e) : e \in {"InvalidAuth", "Assertion", "Transient"}}

\* what sdk.recover may return, its error as the bridge's RecoverError: the
\* reason, and the guesses remaining when the reason is InvalidPin
RecoverResults ==
    {Ok(secret) : secret \in SecretBytes}
    \cup {[ok |-> FALSE, value |-> None, error |-> reason, guesses_remaining |-> None] :
            reason \in {"NotRegistered", "Assertion", "Transient", "InvalidAuth",
                        "NoGuesses"}}
    \cup {[ok |-> FALSE, value |-> None, error |-> "InvalidPin",
           guesses_remaining |-> Some(g)] : g \in GuessValues}

NoCall ==
    [name |-> "none", num_guesses |-> None, policy |-> None,
     register2_policies |-> {}, sdk_result |-> None, returned |-> None,
     thrown |-> None]

\* Native.clientCreate
ClientCreate(configuration) ==
    /\ jpc = "ready"
    /\ client = None
    /\ java_configuration' = Some(configuration)
    /\ LET read == get_configuration(configuration)
           made == IF read.ok THEN Client_new(read.value[1]) ELSE read
       IN  IF made.ok
           THEN client' = made.value /\ jpc' = jpc
           ELSE client' = client /\ jpc' = "panicked"
    /\ UNCHANGED jcall
    /\ UNCHANGED <<regVars, voprfVars, sessVars, jniRest>>

\* Native.clientRegister: num_guesses is the jshort given; phase2 says whether
\* the register went as far as sending Register2 requests
ClientRegister(num_guesses, sdk_result, phase2) ==
    /\ jpc = "ready"
    /\ client # None
    /\ LET converted == jshort_try_into_u16(num_guesses)
       IN  IF ~converted.ok
           THEN /\ jpc' = "panicked"
                /\ jcall' = [NoCall EXCEPT !.name = "clientRegister",
                                           !.num_guesses = Some(num_guesses)]
           ELSE /\ sdk_result.ok => phase2
                /\ jpc' = jpc
                /\ jcall' = [NoCall EXCEPT
                       !.name = "clientRegister",
                       !.num_guesses = Some(num_guesses),
                       !.policy = Some([num_guesses |-> converted.value[1]]),
                       !.register2_policies =
                           IF phase2 THEN {[num_guesses |-> converted.value[1]]} ELSE {},
                       !.sdk_result = Some(sdk_result),
                       !.thrown = IF sdk_result.ok THEN None
                                  ELSE Some(throw(as_i32("Register", sdk_result.error),
                                                  "Register"))]
    /\ UNCHANGED <<java_configuration, client>>
    /\ UNCHANGED <<regVars, voprfVars, sessVars, jniRest>>

\* Native.clientRecover
ClientRecover(sdk_result) ==
    /\ jpc = "ready"
    /\ client # None
    /\ jcall' = [NoCall EXCEPT
           !.name = "clientRecover",
           !.sdk_result = Some(sdk_result),
           !.returned = IF sdk_result.ok THEN sdk_result.value ELSE Some(<<>>),
           !.thrown =
               IF sdk_result.ok THEN None
               ELSE Some([class |-> "RecoverException",
                          error_type |-> "RecoverError",
                          error |-> JavaErrorValue("Recover",
                                        as_i32("Recover", sdk_result.error)),
                          guesses_remaining |->
                              IF sdk_result.guesses_remaining = None THEN None
                              ELSE Some(as_jshort(sdk_result.guesses_remaining[1]))])]
    /\ UNCHANGED <<java_configuration, client, jpc>>
    /\ UNCHANGED <<regVars, voprfVars, sessVars, jniRest>>

\* Native.clientDelete
ClientDelete(sdk_result) ==
    /\ jpc = "ready"
    /\ client # None
    /\ jcall' = [NoCall EXCEPT
           !.name = "clientDelete",
           !.sdk_result = Some(sdk_result),
           !.thrown = IF sdk_result.ok THEN None
                      ELSE Some(throw(as_i32("Delete", sdk_result.error), "Delete"))]
    /\ UNCHANGED <<java_configuration, client, jpc>>
    /\ UNCHANGED <<regVars, voprfVars, sessVars, jniRest>>

(***************************************************************************)
(* A call through the bridge. clientRegister, clientRecover and            *)
(* clientDelete hand the SDK operation to block_on; the operation is a     *)
(* sequence of fan-outs of per-realm requests, each of which waits for the *)
(* host's token (authTokenGetComplete) and then for the host's HTTP        *)
(* response (httpClientRequestComplete). Responses are kept by their       *)
(* status only. The ids of the HttpClient are random and distinct; here a   *)
(* request's id is the number of its context id.                           *)
(***************************************************************************)
NoTask ==
    [stage |-> "unsent", context_id |-> None, request_id |-> None,
     token |-> None, response |-> None, outcome |-> ""]

NoHostCall == [name |-> "none", state |-> "outside", thrown |-> None]

NoOperation == [name |-> "none", round |-> 0, result |-> None]

BridgeCalls == {"clientRegister", "clientRecover", "clientDelete"}

\* the status codes a host reports
StatusCodes == {200, 401, 500}

\* the classification of a response: 401 is InvalidAuth, any other failure
\* Transient
classify(status_code) ==
    CASE status_code = 200 -> "Ok"
      [] status_code = 401 -> "InvalidAuth"
      [] OTHER -> "Transient"

\* a mutant of get_callback: the token goes to the first request that waits
\* for one
get_callback_first_pending(pool, tk, context_id) ==
    LET waiting == {i \in DOMAIN tk : tk[i].stage = "token"}
    IN  IF waiting = {} THEN {}
        ELSE {CHOOSE i \in waiting : \A j \in waiting : i <= j}

\* AuthTokenManager::get_callback(context_id, auth_token): the requests the
\* token is delivered to, found by the context id in the map of the manager
get_callback(pool, tk, context_id) ==
    IF context_id \in pool
    THEN {i \in DOMAIN tk : tk[i].stage = "token"
                            /\ tk[i].context_id = Some(context_id)}
    ELSE {}

\* a mutant of receive: the response goes to the first request that waits
\* for one
receive_first_pending(pool, tk, id) ==
    LET waiting == {i \in DOMAIN tk : tk[i].stage = "http"}
    IN  IF waiting = {} THEN {}
        ELSE {CHOOSE i \in waiting : \A j \in waiting : i <= j}

\* HttpClient::receive(id, Some(response)): the requests the response is
\* delivered to, found by the request id in the map of the client
receive(pool, tk, id) ==
    IF id \in pool
    THEN {i \in DOMAIN tk : tk[i].stage = "http"
                            /\ tk[i].request_id = Some(id)}
    ELSE {}

\* the fan-outs of an operation: Register1 and Register2, Recover1 and
\* Recover2, Delete
Rounds(name) == IF name = "clientDelete" THEN 1 ELSE 2

\* how a fan-out is awaited: register awaits phase 1 with join_all and
\* phase 2 with try_join_all
round_mode(name, round) ==
    IF name = "clientRegister"
    THEN IF round = 1 THEN "join_all" ELSE "try_join_all"
    ELSE "join_at_least_threshold"

\* the successes a fan-out needs
round_required(name, configuration) ==
    IF name = "clientRecover" THEN configuration.recover_threshold
    ELSE configuration.register_threshold

\* the errors of the requests that have failed, in realm order
task_errors(tk) ==
    LET failed == SelectSeq(tk, LAMBDA t : t.stage = "done" /\ t.outcome # "Ok")
    IN  [k \in 1..Len(failed) |-> failed[k].outcome]

\* the loop over the results of join_all: the error returned at the first
\* error that leaves too few realms, Ok when there is none
join_all_result(sent_len, errs, threshold) ==
    LET tipping == {k \in 1..Len(errs) : too_many_errors(sent_len, k, threshold)}
    IN  IF tipping = {} THEN "Ok"
        ELSE FirstAfterSort(SubSeq(errs, 1,
                 CHOOSE k \in tipping : \A j \in tipping : k <= j))

\* Some(result) once the fan-out is over, None while it is awaited
round_decided(mode, threshold, tk) ==
    LET launched == {i \in DOMAIN tk : tk[i].stage # "unsent"}
        waiting == {i \in launched : tk[i].stage \in {"token", "http"}}
        oks == {i \in launched : tk[i].outcome = "Ok"}
        errs == task_errors(tk)
    IN  CASE mode = "join_all" ->
               IF waiting # {} THEN None
               ELSE Some(join_all_result(Cardinality(launched), errs, threshold))
          [] mode = "try_join_all" ->
               IF errs # <<>> THEN Some(errs[1])
               ELSE IF waiting = {} THEN Some("Ok") ELSE None
          [] OTHER ->
               IF Cardinality(oks) >= threshold THEN Some("Ok")
               ELSE IF too_many_errors(Cardinality(launched), Len(errs), threshold)
                    THEN Some(FirstAfterSort(errs))
                    ELSE None

\* the requests of a fan-out to the given realms, each asking for its token
\* under a context id of its own
launch(realmSet, realms_len, first_id) ==
    [i \in 1..realms_len |->
        IF i \in realmSet
        THEN [NoTask EXCEPT
                !.stage = "token",
                !.context_id = Some(first_id + Cardinality({j \in realmSet : j < i}))]
        ELSE NoTask]

\* the requests of a fan-out that is over: those still awaited are dropped
drop_awaited(tk) ==
    [i \in DOMAIN tk |->
        IF tk[i].stage \in {"token", "http"}
        THEN [tk[i] EXCEPT !.stage = "cancelled"] ELSE tk[i]]

\* a mutant of block_on_ready: the operation is spawned and not waited for
block_on_ready_spawned(op) == TRUE

\* runtime.block_on(future) returns when the future has its result
block_on_ready(op) == op.result # None

\* the requests the operation awaits
Outstanding == {i \in DOMAIN tasks : tasks[i].stage \in {"token", "http"}}

\* the executor polls the operation after requests changed to tk: the
\* fan-out goes on, or the next one begins, or the operation has its result
Poll(tk, pool) ==
    LET d == round_decided(round_mode(operation.name, operation.round),
                           round_required(operation.name, client[1]), tk)
        oks == {i \in DOMAIN tk : tk[i].outcome = "Ok"}
    IN  IF d = None
        THEN /\ operation' = operation
             /\ tasks' = tk
             /\ auth_pending' = pool
             /\ next_context_id' = next_context_id
        ELSE IF d[1] = "Ok" /\ operation.round < Rounds(operation.name)
        THEN /\ operation' = [operation EXCEPT !.round = @ + 1]
             /\ tasks' = launch(oks, Len(tk), next_context_id)
             /\ auth_pending' =
                    pool \cup (next_context_id..(next_context_id + Cardinality(oks) - 1))
             /\ next_context_id' = next_context_id + Cardinality(oks)
        ELSE /\ operation' = [operation EXCEPT !.result = d]
             /\ tasks' = drop_awaited(tk)
             /\ auth_pending' = pool
             /\ next_context_id' = next_context_id

\* Native.clientRegister, clientRecover, clientDelete up to block_on, the
\* one call made on the Client: the operation starts with its first fan-out,
\* to every realm
ClientCall(name) ==
    /\ jpc = "ready"
    /\ client # None
    /\ host = NoHostCall
    /\ host' = [name |-> name, state |-> "blocked", thrown |-> None]
    /\ operation' = [name |-> name, round |-> 1, result |-> None]
    /\ tasks' = launch(1..client[1].realms, client[1].realms, next_context_id)
    /\ auth_pending' =
           auth_pending \cup (next_context_id..(next_context_id + client[1].realms - 1))
    /\ next_context_id' = next_context_id + client[1].realms
    /\ UNCHANGED http_pending
    /\ UNCHANGED <<regVars, voprfVars, sessVars, jniVars, brRest>>

\* Native.authTokenGetComplete(context, context_id, auth_token), called by
\* the host on any thread; with a token the request goes on to the
\* HttpClient under its request id
AuthTokenGetComplete(context_id, auth_token_is_null) ==
    /\ client # None
    /\ LET target == get_callback(auth_pending, tasks, context_id)
           auth_token == authTokenGetComplete(auth_token_is_null)
           delivered == Some([context_id |-> context_id, auth_token |-> auth_token])
           tk == [i \in DOMAIN tasks |->
                    IF i \notin target THEN tasks[i]
                    ELSE IF auth_token = None
                    THEN [tasks[i] EXCEPT !.stage = "done", !.token = delivered,
                                          !.outcome = "InvalidAuth"]
                    ELSE [tasks[i] EXCEPT !.stage = "http", !.token = delivered,
                                          !.request_id = tasks[i].context_id]]
           sent_on == {tk[i].request_id[1] : i \in {j \in target : tk[j].stage = "http"}}
       IN  /\ http_pending' = http_pending \cup sent_on
           /\ IF target = {}
              THEN /\ auth_pending' = auth_pending \ {context_id}
                   /\ UNCHANGED <<operation, tasks, next_context_id>>
              ELSE Poll(tk, auth_pending \ {context_id})
    /\ UNCHANGED host
    /\ UNCHANGED <<regVars, voprfVars, sessVars, jniVars, brRest>>

\* Native.httpClientRequestComplete(http_client, response), called by the
\* host on any thread
HttpClientRequestComplete(id, status_code) ==
    /\ client # None
    /\ LET target == receive(http_pending, tasks, id)
           tk == [i \in DOMAIN tasks |->
                    IF i \notin target THEN tasks[i]
                    ELSE [tasks[i] EXCEPT
                            !.stage = "done",
                            !.response = Some([id |-> id, status_code |-> status_code]),
                            !.outcome = classify(status_code)]]
       IN  /\ http_pending' = http_pending \ {id}
           /\ IF target = {}
              THEN UNCHANGED <<operation, tasks, auth_pending, next_context_id>>
              ELSE Poll(tk, auth_pending)
    /\ UNCHANGED host
    /\ UNCHANGED <<regVars, voprfVars, sessVars, jniVars, brRest>>

\* block_on returns and the call returns to the host, or throws the
\* exception of the operation's error
ClientReturn ==
    /\ host.state = "blocked"
    /\ block_on_ready(operation)
    /\ host' = [host EXCEPT
                  !.state = "outside",
                  !.thrown = IF operation.result \in {None, Some("Ok")} THEN None
                             ELSE operation.result]
    /\ UNCHANGED <<operation, tasks, auth_pending, http_pending, next_context_id>>
    /\ UNCHANGED <<regVars, voprfVars, sessVars, jniVars, brRest>>

(***************************************************************************)
(* Register and recover against honest realms.                             *)
(***************************************************************************)
NoRecord == [next_generation |-> 0, record |-> None]

NoOp ==
    [name |-> "none", phase |-> "done", pin |-> "", secret |-> "",
     policy |-> [num_guesses |-> 0], attempt |-> 0, generation |-> 0,
     oprfs_pin |-> <<>>, tgk_shares |-> <<>>, secret_shares |-> <<>>,
     exhausted |-> FALSE, recover1 |-> <<>>,
     recover2_sent |-> {}, recover2 |-> <<>>,
     result |-> [ok |-> FALSE, value |-> None, error |-> "none",
                 guesses_remaining |-> None]]

RecoverOk(secret) ==
    [ok |-> TRUE, value |-> Some(secret), error |-> "", guesses_remaining |-> None]
RecoverErr(reason, guesses) ==
    [ok |-> FALSE, value |-> None, error |-> reason, guesses_remaining |-> guesses]

\* an honest realm answers Register1Request { generation, blinded_pin }
Register1Honest(i, g) ==
    IF g < realm_state[i].next_generation
    THEN Resp("Register1BadGeneration", realm_state[i].next_generation, TRUE, TRUE,
              FALSE)
    ELSE Resp("Register1Ok", 0, TRUE, TRUE, FALSE)

\* Client::register_first_available_generation is called
HonestRegister(pin, secret, policy) ==
    /\ rop.phase = "done"
    /\ rop' = [NoOp EXCEPT !.name = "register", !.phase = "register1",
                           !.pin = pin, !.secret = secret, !.policy = policy,
                           !.attempt = 1, !.generation = 0]
    /\ UNCHANGED <<recover_threshold, realm_state, registered, deletes>>
    /\ UNCHANGED <<regVars, voprfVars, sessVars, recRest>>

\* register_generation, phase 1: every realm answers, join_all returns and
\* the loop over the results runs
HonestRegister1 ==
    /\ rop.name = "register" /\ rop.phase = "register1"
    /\ LET results == [i \in 1..n |-> register1(Register1Honest(i, rop.generation))]
           p == Phase1(results)
       IN  CASE p.kind = "Error" ->
                  rop' = [rop EXCEPT !.phase = "done",
                                     !.result = RecoverErr(p.error, None)]
             [] p.kind = "Retry" ->
                  IF rop.attempt = 1
                  THEN /\ p.generation <= MaxGen
                       /\ rop' = [rop EXCEPT !.attempt = 2,
                                             !.generation = p.generation]
                  ELSE rop' = [rop EXCEPT !.phase = "done",
                                          !.result = RecoverErr("Assertion", None)]
             [] OTHER ->
                  rop' = [rop EXCEPT
                             !.phase = "register2",
                             !.oprfs_pin =
                                 [i \in 1..n |->
                                     IF p.oprfs_pin[i] = None THEN None
                                     ELSE Some(oprf(oprf_key(i, rop.generation),
                                                    hash_pin(rop.pin)))]]
    /\ UNCHANGED <<recover_threshold, realm_state, registered, deletes>>
    /\ UNCHANGED <<regVars, voprfVars, sessVars, recRest>>

\* register_generation, the sharing and phase 2: each realm with an OPRF
\* result is sent its Register2Request, stores it and answers Ok; then
\* try_join_all returns, and delete_up_to runs where the code calls it
HonestRegister2 ==
    /\ rop.name = "register" /\ rop.phase = "register2"
    /\ LET g == rop.generation
           tgk == new_random_tgk(g)
           tgk_shares == dealer(recover_threshold, tgk, g, n)
           secret_shares == dealer(recover_threshold, rop.secret, g, n)
           args == register2_requests(
                       zip4([i \in 1..n |-> i], rop.oprfs_pin, tgk_shares,
                            secret_shares), g)
           to == Register2Realms(args)
           sent_to(i) == args[CHOOSE k \in DOMAIN args : args[k].realm = i]
           responses ==
               [i \in to |->
                   Resp("Register2Ok", 0, TRUE, TRUE,
                        /\ realm_state[i].record # None
                        /\ realm_state[i].record[1].generation < g)]
           results == [i \in to |-> register2(responses[i])]
       IN  /\ realm_state' =
                 [i \in 1..n |->
                     IF i \in to
                     THEN [next_generation |-> g + 1,
                           record |-> Some(
                               [generation |-> g,
                                oprf_key |-> oprf_key(i, g),
                                masked_tgk_share |->
                                    mask(sent_to(i).tgk_share, sent_to(i).oprf_pin),
                                tag |-> tag(tgk, i),
                                secret_share |-> sent_to(i).secret_share,
                                policy |-> rop.policy,
                                guesses_used |-> 0])]
                     ELSE realm_state[i]]
           /\ IF \E i \in to : results[i].kind = "Error"
              THEN /\ rop' = [rop EXCEPT
                         !.phase = "done",
                         !.tgk_shares = tgk_shares,
                         !.secret_shares = secret_shares,
                         !.result = RecoverErr(
                             results[CHOOSE i \in to : results[i].kind = "Error"].error,
                             None)]
                   /\ UNCHANGED registered
              ELSE /\ rop' = [rop EXCEPT !.phase = "done",
                                         !.tgk_shares = tgk_shares,
                                         !.secret_shares = secret_shares,
                                         !.result = RecoverOk("unit")]
                   /\ registered' = Some([pin |-> rop.pin, secret |-> rop.secret,
                                          policy |-> rop.policy])
    /\ UNCHANGED <<recover_threshold, deletes>>
    /\ UNCHANGED <<regVars, voprfVars, sessVars, recRest>>

\* an honest realm answers Recover1Request { generation: None, blinded_pin }
Recover1Honest(i) ==
    IF realm_state[i].record = None
    THEN [tag |-> "NotRegistered"]
    ELSE LET record == realm_state[i].record[1]
         IN  IF record.guesses_used >= record.policy.num_guesses
             THEN [tag |-> "NoGuesses", generation |-> record.generation]
             ELSE [tag |-> "Ok", generation |-> record.generation,
                   oprf_pin |-> oprf(record.oprf_key, hash_pin(rop.pin)),
                   masked_tgk_share |-> record.masked_tgk_share]

\* Client::recover is called
HonestRecover(pin) ==
    /\ rop.phase = "done"
    /\ rop' = [NoOp EXCEPT
                  !.name = "recover", !.phase = "recover1", !.pin = pin,
                  !.exhausted =
                      \E i \in 1..n :
                          /\ realm_state[i].record # None
                          /\ realm_state[i].record[1].guesses_used
                                >= realm_state[i].record[1].policy.num_guesses]
    /\ UNCHANGED <<recover_threshold, realm_state, registered, deletes>>
    /\ UNCHANGED <<regVars, voprfVars, sessVars, recRest>>

\* recover, phase 1: every realm answers Recover1; with recover_threshold
\* realms Ok on one generation the client unmasks their shares, recovers the
\* tag-generating key and sends each of them Recover2Request { generation,
\* tag }
HonestRecover1 ==
    /\ rop.name = "recover" /\ rop.phase = "recover1"
    /\ LET responses == [i \in 1..n |-> Recover1Honest(i)]
           ok == {i \in 1..n : responses[i].tag = "Ok"}
           generations == {responses[i].generation : i \in ok}
           agreeing(g) == {i \in ok : responses[i].generation = g}
           consensus == {g \in generations :
                            Cardinality(agreeing(g)) >= recover_threshold}
       IN  IF consensus = {}
           THEN rop' = [rop EXCEPT
                    !.phase = "done",
                    !.recover1 = responses,
                    !.result =
                        IF \E i \in 1..n : responses[i].tag = "NoGuesses"
                        THEN RecoverErr("NoGuesses", None)
                        ELSE RecoverErr("NotRegistered", None)]
           ELSE LET g == CHOOSE g \in consensus : \A h \in consensus : h <= g
                    shares == {unmask(responses[i].masked_tgk_share,
                                      responses[i].oprf_pin) : i \in agreeing(g)}
                    tgk == sharks_recover(shares)
                IN  rop' = [rop EXCEPT
                        !.phase = "recover2",
                        !.generation = g,
                        !.recover1 = responses,
                        !.recover2_sent =
                            {[realm |-> i, generation |-> g,
                              tag |-> tag(IF tgk = None THEN new_random_tgk(-1)
                                          ELSE tgk[1], i)] :
                                i \in agreeing(g)}]
    /\ UNCHANGED <<recover_threshold, realm_state, registered, deletes>>
    /\ UNCHANGED <<regVars, voprfVars, sessVars, recRest>>

\* an honest realm answers Recover2Request { generation, tag }
Recover2Honest(request) ==
    LET record == realm_state[request.realm].record[1]
    IN  IF request.tag = record.tag
        THEN [tag |-> "Ok", secret_share |-> record.secret_share,
              guesses_remaining |-> record.policy.num_guesses]
        ELSE [tag |-> "BadUnlockTag", secret_share |-> record.secret_share,
              guesses_remaining |->
                  record.policy.num_guesses - record.guesses_used - 1]

\* recover, phase 2: the realms answer Recover2; a wrong tag spends a guess,
\* a right one clears the count; with recover_threshold shares the client
\* recovers the secret
HonestRecover2 ==
    /\ rop.name = "recover" /\ rop.phase = "recover2"
    /\ LET to == {request.realm : request \in rop.recover2_sent}
           request(i) == CHOOSE req \in rop.recover2_sent : req.realm = i
           responses == [i \in to |-> Recover2Honest(request(i))]
           bad == {i \in to : responses[i].tag = "BadUnlockTag"}
           secret == sharks_recover({responses[i].secret_share : i \in to \ bad})
       IN  /\ realm_state' =
                 [i \in 1..n |->
                     IF i \in to
                     THEN [realm_state[i] EXCEPT
                              !.record = Some(
                                  [realm_state[i].record[1] EXCEPT
                                      !.guesses_used =
                                          IF i \in bad THEN @ + 1 ELSE 0])]
                     ELSE realm_state[i]]
           /\ rop' = [rop EXCEPT
                    !.phase = "done",
                    !.recover2 = [i \in 1..n |->
                                     IF i \in to THEN responses[i]
                                     ELSE [tag |-> "Unsent"]],
                    !.result =
                        IF bad # {}
                        THEN RecoverErr("InvalidPin",
                                 Some(CHOOSE m \in {responses[i].guesses_remaining :
                                                        i \in bad} :
                                          \A i \in bad :
                                              m <= responses[i].guesses_remaining))
                        ELSE IF secret = None THEN RecoverErr("Assertion", None)
                        ELSE RecoverOk(secret[1])]
    /\ UNCHANGED <<recover_threshold, registered, deletes>>
    /\ UNCHANGED <<regVars, voprfVars, sessVars, recRest>>

\* a mutant of DeleteResponse: a realm holding nothing answers with a
\* failure variant
DeleteResponse_NotRegistered(record) ==
    IF record = None THEN "NotRegistered" ELSE "Ok"

\* enum DeleteResponse { Ok }: what a realm answers a DeleteRequest, whatever
\* it holds
DeleteResponse(record) == "Ok"

\* DeleteRequest { up_to }: a generation is deleted under None, and under
\* Some(g) when it is below g
delete_covers(up_to, g) == up_to = None \/ g < up_to[1]

\* delete: Delete { up_to: None } goes to every realm; each realm drops what
\* it holds and answers; the client returns Ok with register_threshold Ok
\* answers.  A realm may keep or forget the generations it has handed out.
HonestDelete(keep_generation) ==
    /\ rop.phase = "done"
    /\ LET responses == [i \in 1..n |-> DeleteResponse(realm_state[i].record)]
           ok == {i \in 1..n : responses[i] = "Ok"}
       IN  /\ realm_state' =
                 [i \in 1..n |->
                     IF realm_state[i].record # None
                        /\ ~delete_covers(None, realm_state[i].record[1].generation)
                     THEN realm_state[i]
                     ELSE [next_generation |->
                               IF keep_generation THEN realm_state[i].next_generation
                               ELSE 0,
                           record |-> None]]
           /\ rop' = [NoOp EXCEPT
                    !.name = "delete",
                    !.result =
                        IF Cardinality(ok) >= register_threshold
                        THEN RecoverOk("unit")
                        ELSE RecoverErr("Assertion", None)]
    /\ registered' = None
    /\ deletes' = IF deletes < 2 THEN deletes + 1 ELSE deletes
    /\ UNCHANGED recover_threshold
    /\ UNCHANGED <<regVars, voprfVars, sessVars, recRest>>

(***************************************************************************)
(* The specifications.                                                     *)
(***************************************************************************)
VoprfInit ==
    /\ vpc = "init"
    /\ private_key = None
    /\ public_key = None
    /\ input = <<>>
    /\ blinding_factor = None
    /\ blinded_input = None
    /\ blinded_output = None
    /\ proof = None
    /\ verified = None
    /\ output = None
    /\ wire_type = "none"
    /\ wire_value = None
    /\ wire = <<>>
    /\ decoded = None

SessInit ==
    /\ sess = "Absent"
    /\ cur = None
    /\ sent = <<>>
    /\ sresult = "none"
    /\ response = "none"

RegInit ==
    /\ n \in 1..MaxRealms
    /\ register_threshold \in 1..n
    /\ tokens \in SUBSET (1..n)
    /\ pc = "idle"
    /\ attempt = 1
    /\ generation = 0
    /\ r1 = [i \in 1..n |-> Unsent]
    /\ oprfs_pin = <<>>
    /\ register2_args = <<>>
    /\ r2 = [i \in 1..n |-> Unsent]
    /\ requests = {}
    /\ result = "none"
    /\ decided = "none"
    /\ cleanup = "none"
    /\ received = [i \in 1..n |-> NothingReceived]

\* a Client of one realm on which register is not called
RegIdle ==
    /\ RegInit
    /\ n = 1
    /\ tokens = {1}

\* no run on seeds has been started
VecInit ==
    /\ test_inputs \in TestInputs
    /\ entropy = <<>>
    /\ tpc = "idle"
    /\ run = NoRun
    /\ test_outputs = <<>>

\* the runs on seeds are left aside
VecIdle ==
    /\ VecInit
    /\ test_inputs.input = <<>>
    /\ \A f \in {"private_key_seed", "blinding_factor_seed", "beta_t_seed"} :
           test_inputs[f][1] = 0

\* nothing has been formatted
DbgInit == logged = <<>>

\* no Client has been created through the bridge
JniInit ==
    /\ java_configuration = None
    /\ client = None
    /\ jcall = NoCall
    /\ jpc = "ready"

\* the realms hold nothing and no operation has been called; registrations
\* made and deleted before, completed or not, have used up generations on
\* some realms
RecInit ==
    /\ recover_threshold \in 1..register_threshold
    /\ realm_state \in [1..n -> {[NoRecord EXCEPT !.next_generation = g] :
                                     g \in 0..MaxGen}]
    /\ rop = NoOp
    /\ registered = None
    /\ deletes = 0

\* register and recover against honest realms are left aside
RecIdle ==
    RecInit /\ recover_threshold = 1 /\ realm_state = [i \in 1..n |-> NoRecord]

\* no answer is settled beforehand
OrdInit == planned = None

\* no call has been made through the bridge
BrInit ==
    /\ host = NoHostCall
    /\ operation = NoOperation
    /\ tasks = <<>>
    /\ auth_pending = {}
    /\ http_pending = {}
    /\ next_context_id = 0

ExtIdle == VecIdle /\ DbgInit /\ JniInit /\ RecIdle /\ OrdInit /\ BrInit

Init == RegInit /\ VoprfInit /\ SessInit /\ ExtIdle

Next ==
    \/ Register
    \/ \E i \in 1..n : Register1Complete(i)
    \/ Register1Joined
    \/ \E i \in 1..n : Register2Complete(i)
    \/ \E outcome \in {"Ok"} \cup RequestErrors : DeleteUpToComplete(outcome)

Spec == Init /\ [][Next]_vars

\* a Client of MaxLiveRealms realms at most
InitLive == Init /\ n <= MaxLiveRealms

\* register is called, every request sent is completed in the end, with a
\* response or an error, and the executor resumes register when the futures
\* it awaits are ready
SpecLive ==
    /\ InitLive
    /\ [][Next]_vars
    /\ WF_vars(Register)
    /\ WF_vars(\E i \in 1..n : Register1Complete(i))
    /\ WF_vars(Register1Joined)
    /\ WF_vars(\E i \in 1..n : Register2Complete(i))
    /\ WF_vars(\E outcome \in {"Ok"} \cup RequestErrors : DeleteUpToComplete(outcome))

\* register where the answers to Register2 are settled when phase 2 starts
\* and arrive in any order
NextOrder ==
    \/ Register
    \/ \E i \in 1..n : Register1Complete(i)
    \/ Register1Joined
    \/ \E plan \in [1..n -> Register2Responses
                                \cup {Resp(t, 0, TRUE, TRUE, FALSE) :
                                         t \in {"Unsent", "InvalidAuth"}}] :
          PlanAnswers(plan)
    \/ \E i \in 1..n : PlannedRegister2Complete(i)
    \/ \E outcome \in {"Ok"} \cup RequestErrors : DeleteUpToComplete(outcome)

SpecOrder == Init /\ [][NextOrder]_vars

InitVoprf == RegIdle /\ VoprfInit /\ SessInit /\ ExtIdle

NextVoprf ==
    \/ \E k \in Scalars : PrivateKeyRandom(k)
    \/ \E bytes \in Inputs, b \in Scalars : Start(bytes, b)
    \/ \E beta_t \in Scalars : BlindEvaluate(beta_t)
    \/ \E w \in WireCandidates : ReceivePublicKey(w)
    \/ VerifyProof
    \/ Finalize
    \/ \E type \in Types : ToVec(type)
    \/ \E type \in Types, w \in WireCandidates : ReceiveBytes(type, w)
    \/ FromSlice

SpecVoprf == InitVoprf /\ [][NextVoprf]_vars

InitSession == RegIdle /\ VoprfInit /\ SessInit /\ ExtIdle

NextSession ==
    \/ \E request \in SecretsRequest : MakeRequest(request)
    \/ \E resp \in ClientResponse : ReceiveResponse(resp)
    \/ SessionExpire

SpecSession == InitSession /\ [][NextSession]_vars

InitVector ==
    /\ RegIdle /\ VoprfInit /\ SessInit
    /\ VecInit /\ DbgInit /\ JniInit /\ RecIdle /\ OrdInit /\ BrInit

NextVector ==
    \/ NewManualRng
    \/ RunPrivateKey
    \/ RunStart
    \/ RunBlindEvaluate
    \/ RunFinalize

SpecVector == InitVector /\ [][NextVector]_vars

InitDebug == RegIdle /\ VoprfInit /\ SessInit /\ ExtIdle

NextDebug ==
    \E type \in SecretTypes \cup NoiseTypes \cup {"PublicKey"} :
        \E value \in Values(type) : Format(type, value)

SpecDebug == InitDebug /\ [][NextDebug]_vars

InitJni == RegIdle /\ VoprfInit /\ SessInit /\ ExtIdle

NextJni ==
    \/ \E configuration \in JavaConfigurations : ClientCreate(configuration)
    \/ \E g \in GuessValues, sdk_result \in SdkResults("Register"),
          phase2 \in BOOLEAN :
            ClientRegister(as_jshort(g), sdk_result, phase2)
    \/ \E sdk_result \in RecoverResults : ClientRecover(sdk_result)
    \/ \E sdk_result \in SdkResults("Delete") : ClientDelete(sdk_result)

SpecJni == InitJni /\ [][NextJni]_vars

\* the Configurations of a Client clientCreate has made, of MaxRealms realms
\* at most
CreatedClients ==
    {c \in JavaConfigurations :
        /\ c.realms <= MaxRealms
        /\ get_configuration(c).ok
        /\ Client_new(get_configuration(c).value[1]).ok}

\* a Client has been created through the bridge and no call made on it
InitBridge ==
    /\ RegIdle /\ VoprfInit /\ SessInit
    /\ VecIdle /\ DbgInit /\ RecIdle /\ OrdInit /\ BrInit
    /\ \E c \in CreatedClients :
          /\ java_configuration = Some(c)
          /\ client = Client_new(get_configuration(c).value[1]).value
    /\ jcall = NoCall
    /\ jpc = "ready"

NextBridge ==
    \/ \E name \in BridgeCalls : ClientCall(name)
    \/ \E context_id \in auth_pending \cup {next_context_id}, is_null \in BOOLEAN :
          AuthTokenGetComplete(context_id, is_null)
    \/ \E id \in http_pending \cup {next_context_id}, status_code \in StatusCodes :
          HttpClientRequestComplete(id, status_code)
    \/ ClientReturn

SpecBridge == InitBridge /\ [][NextBridge]_vars

\* a Client whose token provider has a token for every realm
InitRecover ==
    /\ RegInit /\ tokens = 1..n
    /\ VoprfInit /\ SessInit /\ VecIdle /\ DbgInit /\ JniInit /\ RecInit /\ OrdInit
    /\ BrInit

NextRecover ==
    \/ \E pin \in Pins, secret \in Secrets, policy \in Policies :
          HonestRegister(pin, secret, policy)
    \/ HonestRegister1
    \/ HonestRegister2
    \/ \E pin \in Pins : HonestRecover(pin)
    \/ HonestRecover1
    \/ HonestRecover2
    \/ \E keep_generation \in BOOLEAN : HonestDelete(keep_generation)

SpecRecover == InitRecover /\ [][NextRecover]_vars

(***************************************************************************)
(* The claims about register.                                              *)
(***************************************************************************)
Realms == 1..n
OkCount(res) == Cardinality({i \in Realms : res[i].kind = "Ok"})
ErrorCount(res) == Cardinality({i \in Realms : res[i].kind = "Error"})
Answered(res) == \A i \in Realms : res[i].kind \notin {"Pending", "Unsent"}
Register2Sent == {q \in requests : q.kind = "Register2"}
HigherOrEqualPriority(e, f) == RegisterErrorOrd(e) <= RegisterErrorOrd(f)

\* C2: a Register2 request is only ever sent in an attempt whose phase 1 has
\* completed (every register1 future has answered) with at least
\* register_threshold successes.
C2_Phase1BeforePhase2 ==
    \A q \in Register2Sent :
        /\ q.attempt = attempt
        /\ q.generation = generation
        /\ pc \in {"register2", "delete_up_to", "done"}
        /\ Answered(r1)
        /\ OkCount(r1) >= register_threshold

\* C2 witness: phase 2 is running with exactly the threshold of phase-1
\* successes, some other realm having failed phase 1.
C2_Witness ==
    /\ pc = "register2"
    /\ Register2Sent # {}
    /\ OkCount(r1) = register_threshold
    /\ ErrorCount(r1) >= 1

\* C3: when exactly register_threshold - 1 realms succeeded at Register1 and
\* all the others returned errors, register never returns Ok, it returns a
\* RegisterError once phase 1 is processed, and no Register2 is sent.
C3_BelowThresholdFails ==
    (/\ Answered(r1)
     /\ OkCount(r1) = register_threshold - 1
     /\ ErrorCount(r1) = n - register_threshold + 1)
    => /\ Register2Sent = {}
       /\ result # "Ok"
       /\ pc \in {"register1", "done"}
       /\ pc = "done" => result \in RegisterError /\ decided = "phase1"

\* C3 witness: register has failed with r-1 >= 1 successes at phase 1.
C3_Witness ==
    /\ pc = "done"
    /\ register_threshold >= 2
    /\ Answered(r1)
    /\ OkCount(r1) = register_threshold - 1
    /\ ErrorCount(r1) = n - register_threshold + 1
    /\ result \in RegisterError

\* C4 as stated: a phase-1 failure returns the highest-priority error among
\* the errors of all the realms' Register1 results.
C4_HighestOfAllErrors ==
    decided = "phase1" =>
        /\ \E i \in Realms : r1[i].kind = "Error" /\ r1[i].error = result
        /\ \A i \in Realms :
              r1[i].kind = "Error" => HigherOrEqualPriority(result, r1[i].error)

\* the failing realms the loop has seen when it returns: in realm order, the
\* first n - r + 1 of them
FailuresSeen ==
    {i \in Realms :
        /\ r1[i].kind = "Error"
        /\ Cardinality({j \in 1..i : r1[j].kind = "Error"})
              <= n - register_threshold + 1}

\* C4 amended: a phase-1 failure returns the highest-priority error among the
\* errors of the first n - r + 1 failing realms in realm order; the errors of
\* later realms are not considered.
C4_HighestOfErrorsSeen ==
    decided = "phase1" =>
        /\ Cardinality(FailuresSeen) = n - register_threshold + 1
        /\ \E i \in FailuresSeen : r1[i].error = result
        /\ \A i \in FailuresSeen : HigherOrEqualPriority(result, r1[i].error)

\* C4 witness: a phase-1 failure where the errors seen hold two different
\* errors and a later realm returned an error of higher priority than the one
\* reported.
C4_Witness ==
    /\ decided = "phase1"
    /\ \E i, j \in FailuresSeen : r1[i].error # r1[j].error
    /\ \E i \in Realms \ FailuresSeen :
          /\ r1[i].kind = "Error"
          /\ ~HigherOrEqualPriority(result, r1[i].error)

\* C5 as stated: phase 2 succeeds whenever at least register_threshold realms
\* answered Register2 with Ok, and otherwise reports the highest-priority
\* error among the phase-2 failures.
C5_Phase2Threshold ==
    (pc = "done" /\ decided \in {"phase2", "cleanup"}) =>
        IF OkCount(r2) >= register_threshold
        THEN result = "Ok"
        ELSE /\ result \in RegisterError
             /\ \A i \in Realms :
                   r2[i].kind = "Error" => HigherOrEqualPriority(result, r2[i].error)

\* the realms that have a token answered Ok to whatever they were asked
HonestRealms ==
    \A i \in tokens :
        /\ r1[i].kind \in {"Ok", "Pending", "Unsent"}
        /\ r2[i].kind \in {"Ok", "Pending", "Unsent"}

\* C6: three realms, register_threshold 2, honest realms: with no token for
\* exactly one realm register returns Ok, with no token for two it returns
\* InvalidAuth.
C6_TokenNull ==
    (pc = "done" /\ n = 3 /\ register_threshold = 2 /\ HonestRealms) =>
        /\ Cardinality(tokens) = 2 => result = "Ok"
        /\ Cardinality(tokens) = 1 => result = "InvalidAuth"

\* C6 witness: register returned Ok although one of three realms got no token
\* and failed phase 1 with InvalidAuth.
C6_Witness ==
    /\ pc = "done" /\ n = 3 /\ register_threshold = 2 /\ HonestRealms
    /\ Cardinality(tokens) = 2
    /\ \E i \in Realms \ tokens : r1[i] = ErrorResult("InvalidAuth")
    /\ result = "Ok"

\* C7 as stated: phase 1 is over as soon as register_threshold realms have
\* succeeded; it does not wait for the realms that have not answered yet.
C7_ReturnsAtThreshold ==
    (pc = "register1" /\ OkCount(r1) >= register_threshold) => join_all_ready(r1)

\* C7 amended: the fan-out launches every realm's Register1 task together and
\* phase 1 is decided only when every realm has answered; no task is
\* cancelled once the threshold of successes is reached.
C7_WaitsForAll ==
    /\ pc = "register1" =>
          /\ \A i \in Realms : r1[i].kind # "Unsent"
          /\ Sent("Register1", Realms, generation, attempt) \subseteq requests
    /\ pc \in {"register2", "delete_up_to", "done"} => Answered(r1)

\* C7 witness: phase 1 is still waiting although the threshold of successes
\* is reached and a realm has not answered.
C7_Witness ==
    /\ pc = "register1"
    /\ OkCount(r1) >= register_threshold
    /\ \E i \in Realms : r1[i].kind = "Pending"

(***************************************************************************)
(* The claims about the VOPRF and its marshalling, under SpecVoprf.        *)
(***************************************************************************)
MatchingKeys ==
    /\ private_key # None
    /\ public_key = Some(new_from_private(private_key[1]))

\* C1 as stated: for a matching key pair, every input and every blinding
\* factor start may draw, finalize of the blind evaluation is the Output of
\* unoblivious_evaluate.
C1_ObliviousEqualsUnoblivious ==
    (vpc = "finalized" /\ MatchingKeys) =>
        output[1] = unoblivious_evaluate(private_key[1], input)

\* C1, the part that holds: the same with a blinding factor other than zero.
C1_NonZeroBlindingFactor ==
    (vpc = "finalized" /\ MatchingKeys /\ blinding_factor[1] # 0) =>
        output[1] = unoblivious_evaluate(private_key[1], input)

\* the byte strings that are the compressed encoding of a group element
CanonicalEncodings == {compress(point) : point \in Points}

\* C9: to_vec of a PrivateKey, PublicKey, BlindedInput or BlindedOutput is
\* WireLen = 34 bytes long, and from_slice of it succeeds with the value that
\* was serialized (for a point: its compressed and its uncompressed form).
C9_SerializeRoundTrip ==
    (vpc \in {"serialized", "deserialized"} /\ wire_value # None) =>
        /\ Len(wire) = WireLen
        /\ Len(wire) = EncodedLen + 2
        /\ from_slice(wire_type, wire) = Ok(wire_value[1])
        /\ vpc = "deserialized" => decoded[1] = Ok(wire_value[1])

\* C9 witness: a BlindedOutput other than the identity has been serialized
\* and read back.
C9_Witness ==
    /\ vpc = "deserialized"
    /\ wire_type = "BlindedOutput"
    /\ wire_value # None
    /\ wire_value[1].uncompressed # 0
    /\ decoded[1].ok

\* C10: reading a BlindedInput or BlindedOutput from bytes whose byte string
\* is not the EncodedLen-byte canonical encoding of a group element is an
\* error and yields no value; verify_proof is an error when the public key
\* does not decompress.
C10_NonCanonicalRejected ==
    /\ (/\ vpc = "deserialized"
        /\ wire_type \in {"BlindedInput", "BlindedOutput"}
        /\ \/ CborReadBytes(wire) = None
           \/ CborReadBytes(wire)[1] \notin CanonicalEncodings)
       => (~decoded[1].ok /\ decoded[1].value = None)
    /\ (verified # None /\ public_key[1] \notin CanonicalEncodings)
       => verified[1] = Err("invalid public key")

\* C10 witness: a well-framed string of EncodedLen bytes that is no canonical
\* encoding was read as a BlindedInput and refused by the decompression.
C10_Witness ==
    /\ vpc = "deserialized"
    /\ wire_type = "BlindedInput"
    /\ CborReadBytes(wire) # None
    /\ Len(CborReadBytes(wire)[1]) = EncodedLen
    /\ CborReadBytes(wire)[1] \notin CanonicalEncodings
    /\ decoded[1] = Err("decompression failed: not canonical point encoding")

\* C10, its second case reached: verify_proof has refused a public key that
\* does not decompress.
C10_VerifyRefused ==
    /\ verified # None
    /\ public_key[1] \notin CanonicalEncodings
    /\ verified[1] = Err("invalid public key")

(***************************************************************************)
(* The claim about the forward-secrecy rule, under SpecSession.            *)
(***************************************************************************)
\* C8: a Register2 or Recover2 is only ever sent as a Transport request on
\* an established session, never inside a handshake; needs_forward_secrecy
\* is true for exactly Register2 and Recover2; what rides on a handshake is
\* a Register1, Recover1 or Delete.
C8_ForwardSecrecy ==
    /\ \A i \in 1..Len(sent) :
          /\ sent[i].inner \in {"Register2", "Recover2"} =>
                /\ sent[i].encrypted = "Transport"
                /\ sent[i].kind = "SecretsRequest"
                /\ sent[i].session = "Established"
          /\ (sent[i].encrypted = "Handshake" /\ sent[i].inner # "-") =>
                sent[i].inner \in {"Register1", "Recover1", "Delete"}
    /\ \A request \in SecretsRequest :
          needs_forward_secrecy(request) <=> request \in {"Register2", "Recover2"}

\* C8 witness: a Register1 went out with a handshake, and later a Register2
\* went out as Transport right after a handshake of its own.
C8_Witness ==
    \E i, j \in 1..Len(sent) :
        /\ i + 1 < j
        /\ sent[i].encrypted = "Handshake" /\ sent[i].inner = "Register1"
        /\ sent[j - 1].kind = "HandshakeOnly"
        /\ sent[j].encrypted = "Transport" /\ sent[j].inner = "Register2"


(***************************************************************************)
(* C11: for every private key k with public key P = new_from_private(k)    *)
(* and every blinded input start produced, the blinded output and proof    *)
(* that blind_evaluate(k, P, blinded_input) returned are accepted by       *)
(* verify_proof(blinded_input, blinded_output, P, proof).                  *)
(***************************************************************************)
C11_HonestProofAccepted ==
    (verified # None /\ MatchingKeys) => verified[1].ok

\* verify_proof has accepted the proof of a run with a blinded input other
\* than the identity
C11_Witness ==
    /\ verified # None
    /\ MatchingKeys
    /\ verified[1].ok
    /\ blinded_input[1].uncompressed # 0
    /\ proof[1].c # 0


(***************************************************************************)
(* C12: the VOPRF is deterministic in its seeds: with the input and the    *)
(* seeds for private key, blinding factor and proof nonce fixed, every run *)
(* yields the same private key, public key, blinding factor, blinded       *)
(* input, blinded output, proof and Output, each value is the one its seed *)
(* determines, and once blind_evaluate has returned the rng has handed out *)
(* exactly the supplied seed bytes.                                        *)
(***************************************************************************)
C12_SeedDeterminism ==
    /\ \A i, j \in 1..Len(test_outputs) : test_outputs[i] = test_outputs[j]
    /\ tpc = "evaluated" =>
          /\ entropy = <<>>
          /\ run.private_key =
                Some(from_bytes_mod_order_wide(test_inputs.private_key_seed))
          /\ run.blinding_factor =
                Some(from_bytes_mod_order_wide(test_inputs.blinding_factor_seed))
          /\ run.proof[1] =
                dleq_generate_proof(
                    from_bytes_mod_order_wide(test_inputs.beta_t_seed),
                    run.private_key[1], run.blinded_input[1], run.public_key[1],
                    run.blinded_output[1])

\* two runs were made on seeds that are not all alike, and the second run has
\* drained its rng
C12_Witness ==
    /\ Len(test_outputs) = MaxRuns
    /\ MaxRuns >= 2
    /\ test_inputs.private_key_seed # test_inputs.blinding_factor_seed
    /\ test_inputs.blinding_factor_seed # test_inputs.beta_t_seed
    /\ test_inputs.input # <<>>
    /\ entropy = <<>>


(***************************************************************************)
(* C13: the debug output of every secret-carrying VOPRF type (InputHash,   *)
(* BlindedInput, BlindedOutput, Output, PrivateKey, BlindingFactor) is the *)
(* type name followed by REDACTED and does not depend on the value held;   *)
(* only PublicKey prints its bytes, as lowercase hex; the debug output of  *)
(* NoiseRequest and NoiseResponse never includes handshake bytes or        *)
(* ciphertext.                                                             *)
(***************************************************************************)
C13_DebugRedacted ==
    \A i \in 1..Len(logged) :
        LET e == logged[i]
        IN  /\ e.type \in SecretTypes =>
                  /\ e.text = <<e.type, "(REDACTED)">>
                  /\ \A j \in 1..Len(logged) :
                         logged[j].type = e.type => logged[j].text = e.text
            /\ e.type = "PublicKey" =>
                  /\ Len(e.text) = 2 * EncodedLen + 3
                  /\ \A k \in 1..EncodedLen :
                         LET high == e.text[2 * k + 1]
                             low == e.text[2 * k + 2]
                         IN  \E h, l \in 1..16 :
                                /\ high = HexDigits[h]
                                /\ low = HexDigits[l]
                                /\ e.value[k] = 16 * (h - 1) + (l - 1)
            /\ e.type \in NoiseTypes =>
                  /\ e.text[1] = e.type
                  /\ \A j \in 1..Len(logged) :
                         (/\ logged[j].type = e.type
                          /\ e.type = "NoiseResponse::Handshake" =>
                                logged[j].value.session_lifetime
                                    = e.value.session_lifetime)
                         => logged[j].text = e.text

\* two different private keys were formatted
C13_Witness ==
    /\ Len(logged) = 2
    /\ logged[1].type = "PrivateKey"
    /\ logged[2].type = "PrivateKey"
    /\ logged[1].value # logged[2].value

\* two Noise handshake requests of different handshake bytes were formatted
C13_NoiseFormatted ==
    /\ Len(logged) = 2
    /\ logged[1].type = "NoiseRequest::Handshake"
    /\ logged[2].type = "NoiseRequest::Handshake"
    /\ logged[1].value # logged[2].value


(***************************************************************************)
(* The claims about the JNI bridge.                                        *)
(***************************************************************************)
\* the u16 whose 16 bits a jshort holds
BitsAsU16(value) == (value + U16) % U16

C14_Refused ==
    /\ java_configuration # None
    /\ java_configuration[1].registerThreshold = 0
    /\ client = None
    /\ jpc = "panicked"

(***************************************************************************)
(* C16: clientRegister and clientDelete raise a Java exception if and only *)
(* if the SDK operation returned an error, and the exception carries the   *)
(* constant of the error enum whose ordinal is the variant of the error    *)
(* (InvalidAuth, Assertion, Transient in that order); clientRecover        *)
(* returns the secret bytes on success and otherwise throws a              *)
(* RecoverException carrying the error's reason and a guesses_remaining    *)
(* that is null exactly when the SDK error has none.                       *)
(***************************************************************************)
C16_ExceptionIffError ==
    jcall.sdk_result # None =>
        LET res == jcall.sdk_result[1]
        IN  /\ jcall.thrown # None <=> ~res.ok
            /\ (jcall.name = "clientRegister" /\ ~res.ok) =>
                  /\ jcall.thrown[1].class = "RegisterException"
                  /\ jcall.thrown[1].error_type = "RegisterError"
                  /\ jcall.thrown[1].error = res.error
                  /\ jcall.thrown[1].error
                        = <<"InvalidAuth", "Assertion", "Transient">>[
                              RegisterErrorOrd(res.error) + 1]
            /\ (jcall.name = "clientDelete" /\ ~res.ok) =>
                  /\ jcall.thrown[1].class = "DeleteException"
                  /\ jcall.thrown[1].error_type = "DeleteError"
                  /\ jcall.thrown[1].error = res.error
            /\ (jcall.name = "clientRecover" /\ res.ok) =>
                  jcall.returned = res.value
            /\ (jcall.name = "clientRecover" /\ ~res.ok) =>
                  /\ jcall.thrown[1].class = "RecoverException"
                  /\ jcall.thrown[1].error = res.error
                  /\ jcall.thrown[1].guesses_remaining = None
                        <=> res.guesses_remaining = None

\* clientDelete has thrown for a Transient error
C16_Witness ==
    /\ jcall.name = "clientDelete"
    /\ jcall.thrown # None
    /\ jcall.sdk_result[1].error = "Transient"

\* clientRecover has thrown an InvalidPin that carries a guess count
C16_RecoverThrown ==
    /\ jcall.name = "clientRecover"
    /\ jcall.thrown # None
    /\ jcall.thrown[1].error = "InvalidPin"
    /\ jcall.thrown[1].guesses_remaining # None

(***************************************************************************)
(* C17: for every u16 value g of guesses_remaining reported by a recover   *)
(* error (0..=65535), the guesses_remaining delivered to the Java caller   *)
(* in the RecoverException equals g.                                       *)
(***************************************************************************)
C17_GuessesRemainingDelivered ==
    (/\ jcall.name = "clientRecover"
     /\ ~jcall.sdk_result[1].ok
     /\ jcall.sdk_result[1].guesses_remaining # None)
    => jcall.thrown[1].guesses_remaining = jcall.sdk_result[1].guesses_remaining

\* C17 for the guess counts a jshort can hold: they are delivered unchanged
C17_DeliveredUpToJShortMax ==
    (/\ jcall.name = "clientRecover"
     /\ ~jcall.sdk_result[1].ok
     /\ jcall.sdk_result[1].guesses_remaining # None
     /\ jcall.sdk_result[1].guesses_remaining[1] <= JShortMax)
    => jcall.thrown[1].guesses_remaining = jcall.sdk_result[1].guesses_remaining

(***************************************************************************)
(* C18: register accepts every policy num_guesses in 1..=65535 supplied    *)
(* through the binding and places that same value, unchanged, in the       *)
(* policy of every Register2 request it sends; a value outside 1..=65535   *)
(* is not turned into a different value inside that range.                 *)
(***************************************************************************)
C18_NumGuessesUnchanged ==
    jcall.name = "clientRegister" =>
        LET supplied == BitsAsU16(jcall.num_guesses[1])
        IN  IF supplied \in 1..(U16 - 1)
            THEN /\ jpc = "ready"
                 /\ jcall.policy = Some([num_guesses |-> supplied])
                 /\ \A policy \in jcall.register2_policies :
                        policy.num_guesses = supplied
            ELSE jcall.policy # None => jcall.policy[1].num_guesses = supplied

\* C18 for the guess counts a jshort can hold: they reach the Register2
\* requests unchanged
C18_UnchangedUpToJShortMax ==
    (jcall.name = "clientRegister" /\ jcall.num_guesses[1] >= 0) =>
        /\ jpc = "ready"
        /\ jcall.policy = Some([num_guesses |-> jcall.num_guesses[1]])
        /\ \A policy \in jcall.register2_policies :
               policy.num_guesses = jcall.num_guesses[1]


(***************************************************************************)
(* C19: per-realm session lifecycle.  A session moves Absent ->            *)
(* Handshaking -> Established -> Expired; when the realm answers           *)
(* MissingSession or SessionError the client discards the session (back to *)
(* Absent) and performs at most one automatic re-handshake for the logical *)
(* request; a further session failure for that request surfaces as         *)
(* Transient.                                                              *)
(***************************************************************************)
SessionFailures == {"MissingSession", "SessionError"}

\* the steps of the lifecycle
C19_LifecycleStep ==
    /\ sess' = "Handshaking" =>
          \/ sess = "Handshaking"
          \/ /\ Len(sent') = Len(sent) + 1
             /\ sent'[Len(sent')].encrypted = "Handshake"
    /\ sess' = "Established" => sess \in {"Handshaking", "Established"}
    /\ sess' = "Expired" => sess \in {"Established", "Expired"}
    \* a handshake sent in the middle of a logical request is its one
    \* re-handshake, on a discarded session, after a session failure
    /\ (/\ cur # None /\ cur' # None
        /\ Len(sent') = Len(sent) + 1
        /\ sent'[Len(sent')].encrypted = "Handshake") =>
          /\ ~cur[1].retried
          /\ cur'[1].retried
          /\ cur'[1].request = cur[1].request
          /\ sent'[Len(sent')].session = "Absent"
          /\ response' \in SessionFailures
    /\ (cur # None /\ cur' # None /\ cur[1].retried) => cur'[1].retried

\* what a session failure leaves behind
C19_SessionFailure ==
    /\ sess \in {"Absent", "Handshaking", "Established", "Expired"}
    /\ response \in SessionFailures =>
          IF cur = None
          THEN sess = "Absent" /\ sresult = "Transient"
          ELSE /\ cur[1].retried
               /\ sess = "Handshaking"
               /\ sent[Len(sent)].encrypted = "Handshake"
               /\ sent[Len(sent)].session = "Absent"

C19_SessionLifecycle == [][C19_LifecycleStep]_vars /\ []C19_SessionFailure

\* a request met a session failure on an established session, re-handshook,
\* met a second session failure and returned Transient
C19_Witness ==
    /\ cur = None
    /\ response \in SessionFailures
    /\ sresult = "Transient"
    /\ sess = "Absent"
    /\ \E i \in 1..Len(sent) :
          /\ i < Len(sent)
          /\ sent[i].encrypted = "Transport" /\ sent[i].session = "Established"
          /\ sent[i + 1].encrypted = "Handshake" /\ sent[i + 1].session = "Absent"

\* an established session has expired
C19_Expired == sess = "Expired"

(***************************************************************************)
(* The claims about register followed by recover, under SpecRecover.       *)
(***************************************************************************)
\* a recover has returned, after a register that returned Ok, and no realm
\* was out of guesses when it was called
RecoverReturned ==
    /\ rop.name = "recover" /\ rop.phase = "done"
    /\ registered # None
    /\ ~rop.exhausted

\* the smallest guesses_remaining a realm reported to the recover
MinGuessesReported ==
    LET reported == {rop.recover2[i].guesses_remaining :
                        i \in {j \in DOMAIN rop.recover2 :
                                  rop.recover2[j].tag = "BadUnlockTag"}}
    IN  IF reported = {} THEN None
        ELSE Some(CHOOSE m \in reported : \A g \in reported : m <= g)

\* C15: with honest realms and an authenticated client, a recover with the
\* pin of the last successful register, called while every realm has guesses
\* left, returns the secret that register stored.
C15_RegisterThenRecover ==
    (RecoverReturned /\ rop.pin = registered[1].pin)
        => rop.result = RecoverOk(registered[1].secret)

\* the secret of a second register, which took the retry at the generation
\* the realms named, has been recovered with its pin
C15_Witness ==
    /\ RecoverReturned /\ rop.pin = registered[1].pin
    /\ rop.result.ok /\ rop.generation = 1
    /\ recover_threshold >= 2

\* C20: a recover with a pin other than the registered one returns
\* InvalidPin, with guesses_remaining one less than the smallest value the
\* realms reported, and has sent no Recover2 request.
C20_WrongPinNoRecover2 ==
    (RecoverReturned /\ rop.pin # registered[1].pin)
        => /\ rop.result.error = "InvalidPin"
           /\ rop.recover2_sent = {}
           /\ MinGuessesReported # None
           /\ rop.result.guesses_remaining = Some(MinGuessesReported[1] - 1)

\* what does hold of a recover with a wrong pin: it returns InvalidPin with
\* the smallest guesses_remaining of the BadUnlockTag answers to the Recover2
\* requests it sent
C20_InvalidPinFromRecover2 ==
    (RecoverReturned /\ rop.pin # registered[1].pin)
        => /\ rop.result.error = "InvalidPin"
           /\ rop.recover2_sent # {}
           /\ rop.result.guesses_remaining = MinGuessesReported

(***************************************************************************)
(* The claims about delete, under SpecRecover.                             *)
(***************************************************************************)
\* C21: delete returns Ok whether or not anything is registered, also after
\* an earlier delete, and a register made after a delete returns Ok; the
\* only answer a realm gives to Delete is Ok.
C21_DeleteIdempotent ==
    /\ (rop.name = "delete" /\ rop.phase = "done") => rop.result.ok
    /\ (rop.name = "register" /\ rop.phase = "done" /\ deletes > 0)
          => rop.result.ok
    /\ \A i \in 1..n : DeleteResponse(realm_state[i].record) = "Ok"

\* a second delete in a row has returned Ok, nothing being registered
C21_Witness ==
    /\ rop.name = "delete" /\ rop.phase = "done" /\ deletes = 2
    /\ rop.result.ok
    /\ \A i \in 1..n : realm_state[i].record = None

\* a register made after a delete has returned Ok
C21_RegisterAfterDelete ==
    /\ rop.name = "register" /\ rop.phase = "done" /\ deletes > 0
    /\ rop.result.ok /\ registered # None

\* a recover made after delete has returned NotRegistered
C21_RecoverAfterDelete ==
    /\ rop.name = "recover" /\ rop.phase = "done" /\ deletes > 0
    /\ registered = None /\ rop.result.error = "NotRegistered"

(***************************************************************************)
(* The claims about the sharing in register, under SpecRecover.            *)
(***************************************************************************)
\* the shares are one per configured realm, all different, and of a dealing
\* with threshold recover_threshold: every recover_threshold of them give the
\* secret back and no fewer do
DealtForRecoverThreshold(shares, secret) ==
    /\ Len(shares) = n
    /\ Cardinality({shares[i] : i \in 1..n}) = n
    /\ \A i \in 1..n : shares[i].threshold = recover_threshold
    /\ \A chosen \in SUBSET (1..n) :
          sharks_recover({shares[i] : i \in chosen}) =
              IF Cardinality(chosen) >= recover_threshold THEN Some(secret)
              ELSE None

\* C22: in a register attempt that has dealt shares, the tag-generating key
\* and the user secret are each split into n shares, n the number of
\* configured realms, with threshold recover_threshold.
C22_SharesPerRealm ==
    (rop.name = "register" /\ rop.phase = "done" /\ rop.tgk_shares # <<>>)
        => /\ DealtForRecoverThreshold(rop.tgk_shares, new_random_tgk(rop.generation))
           /\ DealtForRecoverThreshold(rop.secret_shares, rop.secret)

\* shares have been dealt by a Client whose recover_threshold is below its
\* register_threshold and the number of its realms
C22_Witness ==
    /\ rop.name = "register" /\ rop.phase = "done" /\ rop.tgk_shares # <<>>
    /\ recover_threshold < register_threshold /\ register_threshold < n

(***************************************************************************)
(* The claims about the attempts of register, under Spec.                  *)
(***************************************************************************)
\* a register_generation call starts in this step: its register1 futures
\* are created
AttemptStarts == r1' # r1 /\ r1' = [i \in 1..n |-> Pending]

C23_AttemptStep ==
    \* an attempt is the first, at generation 0, or the second, at the
    \* generation of the first one's Retry
    /\ AttemptStarts =>
          \/ pc = "idle" /\ attempt' = 1 /\ generation' = 0
          \/ /\ pc = "register1" /\ attempt = 1 /\ attempt' = 2
             /\ join_all_ready(r1) /\ Phase1(r1).kind = "Retry"
             /\ generation' = Phase1(r1).generation
    /\ (attempt' # attempt \/ generation' # generation) => AttemptStarts
    \* a Retry of the second attempt is returned as Assertion
    /\ (pc = "register1" /\ attempt = 2 /\ regVars' # regVars
        /\ join_all_ready(r1) /\ Phase1(r1).kind = "Retry")
          => pc' = "done" /\ result' = "Assertion"
    \* an Error of phase 1 or phase 2 of either attempt is what register returns
    /\ (pc = "register1" /\ regVars' # regVars
        /\ join_all_ready(r1) /\ Phase1(r1).kind = "Error")
          => pc' = "done" /\ result' = Phase1(r1).error
    /\ (pc = "register2" /\ \E i \in 1..n : r2'[i].kind = "Error")
          => pc' = "done" /\ \E i \in 1..n : r2'[i] = ErrorResult(result')
    \* nothing follows the return
    /\ pc = "done" => regVars' = regVars

\* C23: register attempts generation 0 first; only a Retry(g) of that attempt
\* is followed by one more attempt, at g; a Retry of the second attempt
\* returns Assertion; an Error of either attempt is returned as it is; there
\* is no third attempt.
C23_TwoAttempts == [][C23_AttemptStep]_vars

\* the second attempt, at a generation above 0, has answered Retry and
\* register has returned Assertion
C23_Witness ==
    /\ pc = "done" /\ decided = "retry" /\ result = "Assertion"
    /\ attempt = 2 /\ generation > 0 /\ Phase1(r1).kind = "Retry"

\* the second attempt has returned one of its realms' errors
C23_SecondAttemptError ==
    /\ pc = "done" /\ attempt = 2 /\ decided = "phase1" /\ result = "Transient"

(***************************************************************************)
(* The claims about the retry generation, under SpecRecover.               *)
(***************************************************************************)
\* the first attempt of a register has returned Retry and the second has
\* not been answered yet: the realms are as they answered the first
RetryReturned ==
    rop.name = "register" /\ rop.phase = "register1" /\ rop.attempt = 2

\* the first_available generations the realms reported in the first attempt
ReportedFirstAvailable ==
    {Register1Honest(i, 0).first_available :
        i \in {j \in 1..n : Register1Honest(j, 0).tag = "Register1BadGeneration"}}

\* C24: the generation of a Retry is the largest first_available generation
\* a realm reported with BadGeneration in that attempt, and it is available
\* on every realm that answered.
C24_RetryGeneration ==
    RetryReturned
        => /\ rop.generation \in ReportedFirstAvailable
           /\ \A g \in ReportedFirstAvailable : g <= rop.generation
           /\ \A i \in 1..n : realm_state[i].next_generation <= rop.generation

\* a Retry has been returned where one realm answered Ok and two others
\* BadGeneration with different generations, the smaller one first
C24_Witness ==
    /\ RetryReturned
    /\ Cardinality(ReportedFirstAvailable) >= 2
    /\ \E i \in 1..n : Register1Honest(i, 0).tag = "Register1Ok"
    /\ \E i, j \in 1..n :
          /\ i < j
          /\ 0 < realm_state[i].next_generation
          /\ realm_state[i].next_generation < realm_state[j].next_generation

(***************************************************************************)
(* The claims about the outcome of phase 1, under Spec.                    *)
(***************************************************************************)
Errors(results) == {i \in DOMAIN results : results[i].kind = "Error"}
BadGenerations(results) == {i \in DOMAIN results : results[i].kind = "Retry"}
Register2Requests(reqs, a) == {req \in reqs : req.kind = "Register2" /\ req.attempt = a}

\* a step in which join_all returns and the attempt goes on from phase 1
Phase1Decided ==
    pc = "register1" /\ join_all_ready(r1) /\ regVars' # regVars

C25_Phase1Step ==
    Phase1Decided =>
        IF Cardinality(Errors(r1)) > n - register_threshold
        THEN \* too many errors: the attempt returns one of them
             /\ pc' = "done" /\ decided' = "phase1"
             /\ \E i \in Errors(r1) : result' = r1[i].error
             /\ requests' = requests
        ELSE IF BadGenerations(r1) # {}
        THEN \* the attempt returns Retry: no Register2 is sent
             /\ Phase1(r1).kind = "Retry"
             /\ Register2Requests(requests', attempt) = {}
             /\ \/ attempt = 1 /\ AttemptStarts
                \/ attempt = 2 /\ pc' = "done" /\ decided' = "retry"
        ELSE \* phase 2 starts, for the realms whose register1 succeeded
             /\ pc' = "register2"
             /\ \A i \in 1..n : r2'[i].kind = "Pending" <=> r1[i].kind = "Ok"
             /\ Cardinality({i \in 1..n : r1[i].kind = "Ok"}) >= register_threshold

\* C25: after phase 1, more than n - r errors make the attempt return an
\* error; otherwise one BadGeneration makes it return Retry without any
\* Register2; otherwise phase 2 starts.  A BadGeneration is not an error.
C25_Phase1Precedence == [][C25_Phase1Step]_vars

\* a Retry has been returned where n - r realms failed and fewer than r
\* succeeded: the realms answering BadGeneration were not counted as failed
C25_Witness ==
    /\ pc = "done" /\ decided = "retry"
    /\ Cardinality(Errors(r1)) = n - register_threshold
    /\ Errors(r1) # {}
    /\ Cardinality({i \in 1..n : r1[i].kind = "Ok"}) < register_threshold
    /\ Register2Requests(requests, 1) = {} /\ Register2Requests(requests, 2) = {}

\* an error has been returned although a realm answered BadGeneration
C25_ErrorBeforeRetry ==
    /\ pc = "done" /\ decided = "phase1" /\ BadGenerations(r1) # {}

(***************************************************************************)
(* The claims about the cleanup of older generations, under Spec.          *)
(***************************************************************************)
\* the DeleteRequests register has handed to the realms; the generation of
\* such a request is its up_to
DeleteRequests == {req \in requests : req.kind = "Delete"}

\* delete_up_to has been called
CleanupIssued == pc = "delete_up_to" \/ decided = "cleanup"

\* C26: delete_up_to(Some(g)) is called only after the second attempt, at the
\* retry generation g, has succeeded on every realm asked with one of them
\* reporting earlier generations; not after a first attempt that succeeded
\* nor after a register that failed; it does not cover generation g; and
\* whatever it returns, register returns Ok.
C26_Cleanup ==
    /\ CleanupIssued
        => /\ attempt = 2
           /\ \A i \in 1..n : r2[i].kind \in {"Ok", "Unsent"}
           /\ \E i \in 1..n : r2[i].kind = "Ok" /\ r2[i].found_earlier
           /\ \A req \in DeleteRequests :
                 /\ req.generation = generation
                 /\ ~delete_covers(Some(req.generation), generation)
                 /\ \A g \in 0..(generation - 1) :
                       delete_covers(Some(req.generation), g)
    /\ ~CleanupIssued => DeleteRequests = {} /\ cleanup = "none"
    /\ (pc = "done" /\ (attempt = 1 \/ result # "Ok")) => ~CleanupIssued
    /\ (pc = "done" /\ decided = "cleanup") => result = "Ok"

\* the cleanup after a second attempt at a generation above 0 has failed and
\* register has returned Ok
C26_Witness ==
    /\ pc = "done" /\ decided = "cleanup" /\ cleanup = "Transient"
    /\ result = "Ok" /\ generation > 0
    /\ DeleteRequests # {}

\* a second attempt has succeeded with no realm reporting earlier
\* generations, and no cleanup was made
C26_NoCleanup ==
    /\ pc = "done" /\ attempt = 2 /\ result = "Ok" /\ decided = "phase2"
    /\ DeleteRequests = {}

(***************************************************************************)
(* The claims about the Register2 requests, under Spec.                    *)
(***************************************************************************)
\* C27: the Register2 requests of an attempt go to realms whose Register1
\* succeeded in that attempt, one request per realm at most, each with the
\* generation the Register1 requests of the attempt had.
C27_Register2Targets ==
    /\ \A k \in DOMAIN register2_args :
          /\ r1[register2_args[k].realm].kind = "Ok"
          /\ register2_args[k].generation = generation
          /\ \A l \in DOMAIN register2_args :
                register2_args[l].realm = register2_args[k].realm => l = k
    /\ \A i \in 1..n : r2[i].kind # "Unsent" <=> i \in Register2Realms(register2_args)
    /\ \A q \in requests :
          q.kind = "Register2"
              => /\ q.attempt = attempt /\ q.generation = generation
                 /\ r1[q.realm].kind = "Ok"
                 /\ [kind |-> "Register1", realm |-> q.realm,
                     generation |-> q.generation, attempt |-> q.attempt]
                        \in requests

\* phase 2 of a second attempt, at a generation above 0, is under way for
\* two realms or more while another realm failed phase 1
C27_Witness ==
    /\ pc = "register2" /\ attempt = 2 /\ generation > 0
    /\ Len(register2_args) >= 2
    /\ \E i \in 1..n : r1[i].kind = "Error"
    /\ Cardinality({q \in requests : q.kind = "Register2"}) = Len(register2_args)

(***************************************************************************)
(* The claims about the order of the phase-1 results, under Spec.          *)
(***************************************************************************)
\* phase 2 of the current attempt has started
Phase2Started ==
    pc \in {"register2", "delete_up_to"}
        \/ (pc = "done" /\ decided \in {"phase2", "cleanup"})

\* C28: when phase 2 starts, oprfs_pin has one entry per configured realm in
\* realm order, None for a realm that failed; the realm at position i is
\* sent the i-th share of the tag-generating key and the i-th share of the
\* secret with its own OPRF result, and no share goes to two realms.
C28_RealmOrder ==
    Phase2Started
        => /\ Len(oprfs_pin) = n
           /\ \A i \in 1..n :
                 oprfs_pin[i] = IF r1[i].kind = "Ok" THEN Some(i) ELSE None
           /\ \A k \in DOMAIN register2_args :
                 LET args == register2_args[k]
                 IN  /\ args.oprf_pin = args.realm
                     /\ args.tgk_share =
                            dealer(recover_threshold, new_random_tgk(generation),
                                   generation, n)[args.realm]
                     /\ args.secret_share =
                            dealer(recover_threshold, RegisteredSecret,
                                   generation, n)[args.realm]
                     /\ \A l \in DOMAIN register2_args :
                           l # k => /\ register2_args[l].tgk_share # args.tgk_share
                                    /\ register2_args[l].secret_share
                                          # args.secret_share

\* phase 2 has started where a realm failed phase 1 and a realm after it
\* succeeded
C28_Witness ==
    /\ Phase2Started
    /\ \E i, j \in 1..n :
          /\ i < j /\ r1[i].kind = "Error" /\ r1[j].kind = "Ok"
          /\ \E k \in DOMAIN register2_args : register2_args[k].realm = j

(***************************************************************************)
(* The claims about the mapping of the realms' outcomes, under Spec.       *)
(***************************************************************************)
\* the result a failed request, an answer of another kind or an answer that
\* is no success has to be mapped to
MappedError(resp) ==
    IF resp.tag \in RequestErrors THEN ErrorResult(resp.tag)
    ELSE ErrorResult("Assertion")

Register1Failed(resp) ==
    \/ resp.tag \in RequestErrors \cup {"OtherVariant"}
    \/ resp.tag = "Register1Ok" /\ (~resp.finalize_ok \/ ~resp.size_ok)

Register2Failed(resp) ==
    resp.tag \in RequestErrors \cup {"OtherVariant", "NotRegistering", "AlreadyRegistered"}

\* C29: a request error of a realm is mapped to the RegisterError of the same
\* name; an answer of another kind, NotRegistering or AlreadyRegistered to
\* Register2, a failed finalize and an OPRF output of the wrong size are
\* mapped to Assertion; none of them is taken for a success.
C29_ErrorMapping ==
    \A i \in 1..n :
        /\ received[i].register1 # None
            => LET resp == received[i].register1[1]
               IN  /\ Register1Failed(resp) => r1[i] = MappedError(resp)
                   /\ r1[i].kind = "Ok"
                         => /\ resp.tag = "Register1Ok"
                            /\ resp.finalize_ok /\ resp.size_ok
        /\ received[i].register2 # None
            => LET resp == received[i].register2[1]
               IN  /\ Register2Failed(resp) => r2[i] = MappedError(resp)
                   /\ r2[i].kind = "Ok" => resp.tag = "Register2Ok"

\* phase 2 has ended on a realm's AlreadyRegistered, after a realm whose
\* OPRF output had the wrong size was let through in phase 1
C29_Witness ==
    /\ pc = "done" /\ decided = "phase2" /\ result = "Assertion"
    /\ \E i \in 1..n :
          /\ received[i].register2 # None
          /\ received[i].register2[1].tag = "AlreadyRegistered"
    /\ \E i \in 1..n :
          /\ received[i].register1 # None
          /\ received[i].register1[1].tag = "Register1Ok"
          /\ ~received[i].register1[1].size_ok

(***************************************************************************)
(* The claims about the order of arrival, under SpecOrder.                 *)
(***************************************************************************)
\* the realms asked in phase 2 whose settled answer is no success
PlannedFailures ==
    {i \in 1..n : r2[i].kind # "Unsent" /\ register2(planned[1][i]).kind = "Error"}

\* what phase 2 returns when the answers arrive in realm order
Phase2InRealmOrder ==
    IF PlannedFailures = {} THEN "Ok"
    ELSE register2(planned[1][CHOOSE i \in PlannedFailures :
                                  \A j \in PlannedFailures : i <= j]).error

\* C30: what phase 1 of an attempt returns is determined by the realms'
\* results, and so is what phase 2 returns, in whatever order the answers
\* arrive: it is what the arrival in realm order gives.
C30_OrderIndependent ==
    /\ (pc = "done" /\ decided = "phase1")
          => Phase1(r1).kind = "Error" /\ result = Phase1(r1).error
    /\ (pc = "done" /\ decided \in {"phase2", "cleanup"} /\ planned # None)
          => result = Phase2InRealmOrder

\* what does hold of phase 2: whether it returns Ok is determined by the
\* answers, and an error it returns is the error of one of them
C30_OkOrderIndependent ==
    (pc = "done" /\ decided \in {"phase2", "cleanup"} /\ planned # None)
        => /\ result = "Ok" <=> PlannedFailures = {}
           /\ result # "Ok"
                 => \E i \in PlannedFailures : result = register2(planned[1][i]).error

(***************************************************************************)
(* The claims about a register that returned Ok, under Spec.               *)
(***************************************************************************)
\* the realms whose answer to the Register2 of the current attempt was Ok
AnsweredRegister2Ok ==
    {i \in 1..n : /\ received[i].register2 # None
                  /\ received[i].register2[1].tag = "Register2Ok"}

\* C31: when register has returned Ok, register_threshold realms or more
\* answered the Register2 of its last attempt with Ok, every Register2 of
\* that attempt had the attempt's generation, and no realm sent a Register2
\* in that attempt failed.
C31_OkMeansThreshold ==
    (pc = "done" /\ result = "Ok")
        => /\ Cardinality(AnsweredRegister2Ok) >= register_threshold
           /\ \A k \in DOMAIN register2_args :
                 /\ register2_args[k].generation = generation
                 /\ register2_args[k].realm \in AnsweredRegister2Ok
                 /\ r2[register2_args[k].realm].kind = "Ok"
           /\ \A q \in requests :
                 q.kind = "Register2"
                     => q.generation = generation /\ q.realm \in AnsweredRegister2Ok
           /\ \A i \in 1..n : r2[i].kind \in {"Ok", "Unsent"}

\* a second attempt, at a generation above 0, has returned Ok with exactly
\* register_threshold realms answering Ok, another realm having failed
\* phase 1
C31_Witness ==
    /\ pc = "done" /\ result = "Ok" /\ attempt = 2 /\ generation > 0
    /\ Cardinality(AnsweredRegister2Ok) = register_threshold
    /\ register_threshold >= 2
    /\ \E i \in 1..n : r1[i].kind = "Error"

(***************************************************************************)
(* The claim about DecompressedPoint, under SpecVoprf.                     *)
(***************************************************************************)
\* the DecompressedPoint values that exist: the blinded input and output of
\* the run, the value handed to to_vec, and the value read by from_slice
DecompressedPoints ==
    {p[1] : p \in {blinded_input, blinded_output} \ {None}}
        \cup (IF wire_type \in {"BlindedInput", "BlindedOutput"}
                  /\ wire_value # None
               THEN {wire_value[1]} ELSE {})
        \cup (IF /\ wire_type \in {"BlindedInput", "BlindedOutput"}
                  /\ decoded # None
                  /\ decoded[1].ok
               THEN {decoded[1].value[1]} ELSE {})

\* C32: every DecompressedPoint that exists, made from a point or read from
\* bytes, has compressed = compress(uncompressed); two of them are equal
\* by the type's equality exactly when their compressed forms are equal,
\* which then is when the whole values are equal.
C32_CompressedConsistent ==
    /\ \A p \in DecompressedPoints : p.compressed = compress(p.uncompressed)
    /\ \A p, q \in DecompressedPoints :
          /\ DecompressedPoint_eq(p, q) <=> (p.compressed = q.compressed)
          /\ DecompressedPoint_eq(p, q) <=> (p = q)

\* C32 witness: a BlindedOutput built from a point other than the identity
\* was serialized and read back from its bytes.
C32_Witness ==
    /\ vpc = "deserialized"
    /\ wire_type = "BlindedOutput"
    /\ blinded_output # None
    /\ blinded_output[1].uncompressed # 0
    /\ decoded[1].ok
    /\ DecompressedPoint_eq(decoded[1].value[1], blinded_output[1])

\* C32, its other case reached: bytes that came from a peer were read as a
\* BlindedInput while the run holds no point of its own.
C32_FromPeerBytes ==
    /\ vpc = "deserialized"
    /\ wire_type = "BlindedInput"
    /\ wire_value = None
    /\ decoded[1].ok
    /\ decoded[1].value[1].uncompressed # 0

C33_ReturnedOk ==
    /\ host.name = "clientRecover"
    /\ host.state = "outside"
    /\ host.thrown = None
    /\ operation.round = 2
    /\ operation.result = Some("Ok")

\* C34: a completion of the host reaches only the pending request it names.
\* The token a request holds was completed under the request's context id
\* and the response it holds under its request id; a request that waits is
\* in the map of its collaborator under its own id; a request given no
\* token (the host passed null) has failed InvalidAuth without an HTTP
\* request, and only a request given a token has sent one.
C34_MatchedById ==
    \A i \in DOMAIN tasks :
        LET t == tasks[i]
        IN  /\ t.token # None => t.token[1].context_id = t.context_id[1]
            /\ t.response # None =>
                  /\ t.response[1].id = t.request_id[1]
                  /\ t.outcome = classify(t.response[1].status_code)
                  /\ t.token # None /\ t.token[1].auth_token # None
            /\ (t.token # None /\ t.token[1].auth_token = None) =>
                  /\ t.stage = "done"
                  /\ t.outcome = "InvalidAuth"
                  /\ t.request_id = None
                  /\ t.response = None
            /\ t.stage = "token" =>
                  (t.token = None /\ t.context_id[1] \in auth_pending)
            /\ t.stage = "http" =>
                  /\ t.token # None /\ t.token[1].auth_token # None
                  /\ t.response = None
                  /\ t.request_id[1] \in http_pending

\* C34 witness: a response was delivered to a request while a request to a
\* realm before it still waits for its own, and a token of null has failed
\* another request with InvalidAuth.
C34_Witness ==
    /\ \E i, j \in DOMAIN tasks :
          /\ i < j
          /\ tasks[i].stage = "http"
          /\ tasks[j].response # None
          /\ tasks[j].outcome = "Ok"
    /\ \E k \in DOMAIN tasks :
          /\ tasks[k].token # None
          /\ tasks[k].token[1].auth_token = None
          /\ tasks[k].outcome = "InvalidAuth"

\* C34, completions out of order for the tokens: a token was delivered to a
\* request while a request to a realm before it still waits for its token.
C34_TokenOutOfOrder ==
    \E i, j \in DOMAIN tasks :
        /\ i < j
        /\ tasks[i].stage = "token"
        /\ tasks[j].token # None
        /\ tasks[j].stage = "http"

\* C34, a completion for a request that was dropped: in the second fan-out
\* a request waits while the map still holds the id of a request of the
\* first fan-out, and a completion under that id is delivered to no one.
C34_StaleCompletion ==
    /\ operation.round = 2
    /\ Outstanding # {}
    /\ \E id \in auth_pending \cup http_pending :
          /\ \A i \in DOMAIN tasks : tasks[i].context_id # Some(id)
          /\ get_callback(auth_pending, tasks, id) = {}
          /\ receive(http_pending, tasks, id) = {}

(***************************************************************************)
(* The claim about the termination of register, under SpecLive.            *)
(***************************************************************************)
\* the fan-outs of one kind of request that register has made: one per call
\* of register_generation (its attempt and generation) that sent the kind
FanOuts(kind) ==
    {<<q.attempt, q.generation>> : q \in {x \in requests : x.kind = kind}}

\* C35: when every per-realm request completes in the end, register returns
\* in the end, Ok or a RegisterError; and at any time it has made at most
\* two Register1 fan-outs, at most two Register2 fan-outs and at most one
\* cleanup delete.
C35_Terminates ==
    /\ <>(pc = "done" /\ result \in {"Ok"} \cup RegisterError)
    /\ [](/\ Cardinality(FanOuts("Register1")) <= 2
          /\ Cardinality(FanOuts("Register2")) <= 2
          /\ Cardinality(FanOuts("Delete")) <= 1)

\* C35 witness: register has returned after the most it does: two Register1
\* fan-outs, a Register2 fan-out and the cleanup delete.
C35_Witness ==
    /\ pc = "done"
    /\ result = "Ok"
    /\ Cardinality(FanOuts("Register1")) = 2
    /\ Cardinality(FanOuts("Register2")) = 1
    /\ Cardinality(FanOuts("Delete")) = 1
    /\ cleanup # "none"

\* C35, the other end reached: register has returned an error after its
\* second Register1 fan-out was answered with another BadGeneration.
C35_ReturnedAfterRetry ==
    /\ pc = "done"
    /\ decided = "retry"
    /\ result = "Assertion"
    /\ Cardinality(FanOuts("Register1")) = 2
    /\ FanOuts("Register2") = {}

====
